---- MODULE Spec2Model ----
(***************************************************************************)
(* rt-monitor: the sampling pipeline of one metric (producer thread,       *)
(* ThreadSafeQueue, consumer loop), the process-wide pause_manager and the *)
(* signal loop of main that drives it.                                     *)
(*                                                                         *)
(* One behaviour follows the pipeline of one metric; Init chooses which.   *)
(* Threads are interleaved at the granularity of their accesses to shared  *)
(* state: atomics, mutexes, condition variables, the queue.                *)
(*                                                                         *)
(* The network sink is followed on its own: a db_stream, the thread that   *)
(* owns it, the worker of its AsyncInfluxDBWriter and the endpoint.        *)
(***************************************************************************)
EXTENDS Integers, Sequences, FiniteSets, TLC

VARIABLES
    metric,         \* the metric whose pipeline this behaviour follows
    paused,         \* pause_manager_::paused   (std::atomic<bool>)
    stopped,        \* pause_manager_::stopped  (std::atomic<bool>)
    pause_mutex,    \* pause_manager_::pause_mutex is held by the sampling thread
    mpc,            \* position of main
    running,        \* main's local `running`
    signal_pipe,    \* bytes written to signal_pipe[1] and not yet read
    ppc,            \* position of the producer (for net: of the sampling task)
    cpc,            \* position of the consumer (the start_sampling caller)
    queue_,         \* ThreadSafeQueue::queue_
    stop_,          \* ThreadSafeQueue::stop_
    mutex_,         \* ThreadSafeQueue::mutex_ is held by the consumer
    item,           \* the consumer's local sample, target of pop(item)
    produced,       \* history: every snapshot pushed (net: written), in order
    forwarded,      \* history: every snapshot passed to `stream <<`, in order
    paused_pushes,  \* history: pushes made since the last pause() while paused
    stop_at,        \* history: where the first stop() found the sampling thread
    source,         \* the producer's source: "unopened", "open" or "missing"
    reads,          \* history: the number of snapshots read from the source
    upc,            \* position of a function of main that is followed on its own
    config_batch_size,  \* monitor_config::batch_size
    cmd,            \* the command line as the user means it
    argv,           \* argv[1..argc-1]
    config,         \* main's monitor_config once parse_arguments returned
    exit_status,    \* the status main ended with, "none" while it runs
    tasks_started,  \* main has launched the pipeline tasks
    this_sample,    \* operator-=: *this, the minuend
    sample,         \* operator-=: the argument, the subtrahend
    this_before,    \* history: *this when operator-= was entered
    NDEBUG,         \* the build defines NDEBUG: assert() is compiled out
    outcome,        \* how operator-= ended: "returned", "raised", "aborted"
    time_interval,  \* the sampling interval in ms
    sampling_warning_provided,  \* the local of that name, per producer
    warnings,       \* history: overrun warnings logged by the process
    time_to_wait,   \* per producer, the duration last passed to sleep_for
    ticks,          \* per producer, the ticks taken
    op,             \* the operation that is called twice in a row
    calls,          \* the calls of it made so far
    after_once,     \* history: the state its first call left
    partition_info, \* disk::start_sampling: the names in partition_info
    name_to_index,  \* disk::start_sampling: name_to_index
    diskstats,      \* the devices /proc/diskstats lists at the last read
    samples_set,    \* the sample set of the last read, index -> device
    not_indexed,    \* the devices logged as not indexed by the last read
    disk_written,   \* the samples the last turn of the consumer loop wrote
    buffer_,        \* db_stream::buffer_, a string as a sequence of characters
    current_batch_count_,   \* db_stream::current_batch_count_
    batch_size_,    \* db_stream::batch_size_
    writer_queue_,  \* AsyncInfluxDBWriter::queue_
    writer_mutex_,  \* who holds AsyncInfluxDBWriter::mutex_
    running_,       \* AsyncInfluxDBWriter::running_
    sock_,          \* AsyncInfluxDBWriter::sock_
    spc,            \* position of the thread that owns the db_stream
    wpc,            \* position of the writer's worker thread
    payload,        \* worker_loop's local payload
    total_sent,     \* send_request's local total_sent
    response,       \* what the endpoint has answered to the request in flight
    conn_received,  \* bytes the endpoint has received on this connection
    written,        \* history: every line passed to write_line, in order
    handed,         \* history: every batch passed to the writer, and by whom
    requested,      \* history: every payload passed to send_request
    delivered,      \* history: every request the endpoint received whole
    attempts,       \* history: transmissions begun for the current payload
    pushed_in_send, \* history: a batch was pushed during this send_request
    after_flush,    \* history: the owner's last call of the stream was flush()
    last_response   \* history: the response read for the previous request

vars == <<metric, paused, stopped, pause_mutex, mpc, running, signal_pipe,
          ppc, cpc, queue_, stop_, mutex_, item, produced,
          forwarded, paused_pushes, stop_at, source, reads,
          upc, config_batch_size, cmd, argv, config, exit_status,
          tasks_started, this_sample, sample, this_before, NDEBUG, outcome,
          time_interval, sampling_warning_provided, warnings, time_to_wait,
          ticks, op, calls, after_once,
          partition_info, name_to_index, diskstats, samples_set, not_indexed,
          disk_written,
          buffer_, current_batch_count_, batch_size_, writer_queue_,
          writer_mutex_, running_, sock_, spc, wpc, payload, total_sent,
          response, conn_received, written, handed, requested, delivered, attempts,
          pushed_in_send, after_flush, last_response>>

pmVars    == <<paused, stopped, pause_mutex>>
mainVars  == <<mpc, running, signal_pipe>>
queueVars == <<queue_, stop_, mutex_>>
histVars  == <<paused_pushes, stop_at>>
srcVars   == <<source, reads>>

streamVars   == <<buffer_, current_batch_count_, batch_size_>>
writerVars   == <<writer_queue_, writer_mutex_, running_, sock_>>
workerVars   == <<payload, total_sent, response, conn_received>>
sinkHistVars == <<written, handed, requested, delivered, attempts,
                  pushed_in_send, after_flush, last_response>>
sinkVars     == <<streamVars, writerVars, spc, wpc, workerVars, sinkHistVars>>
pipelineVars == <<metric, pmVars, mainVars, ppc, cpc, queueVars, item,
                  produced, forwarded, histVars, srcVars>>

----------------------------------------------------------------------------
(* Bounds *)

MaxSamples == 2     \* snapshots a producer takes in one behaviour
MaxPipe == 1        \* bytes the signal pipe holds unread
MaxBurst == 3       \* the same where main is followed without a pipeline
MaxPush == 3        \* pushes of the queue driver
MaxItem == 2        \* the queue driver pushes items 1..MaxItem
MaxLines == 4       \* lines written to a db_stream in one behaviour
MaxBatch == 3       \* batch sizes run over 1..MaxBatch
MaxBase == 1100     \* largest --batch-size
MaxTicks == 2       \* ticks of one producer
MaxInterval == 2    \* largest sampling interval, in ms
MaxSamplingTime == 3    \* longest time taking one sample needs, in ms
MaxPartitions == 2  \* entries of partition_info
MaxCalls == 2       \* calls of one operation made in a row
MaxAttempts == 3    \* transmissions of one payload the endpoint may fail

----------------------------------------------------------------------------
(* Names *)

SIGINT  == "SIGINT"
SIGUSR1 == "SIGUSR1"
SIGUSR2 == "SIGUSR2"
Signals == {SIGINT, SIGUSR1, SIGUSR2}

Metrics == {"cpu", "cpufreq", "disk", "mem", "net", "ib"}

\* Producers that block through pause_manager::wait_if_paused(); net and ib
\* carry their own copy of the wait.
UsesWaitIfPaused(m) == m \in {"cpu", "cpufreq", "disk", "mem"}

\* Pipelines with a producer thread and a ThreadSafeQueue; net samples and
\* writes in one loop.
QueueBased(m) == m # "net"

\* Producers that open their source themselves and close the queue if the
\* source is not there.
OpensSource(m) == m \in {"cpu", "disk", "mem", "ib"}

NoItem == 0

\* Characters are integers: the k-th line written is the one-character
\* string <<k>>, and NL is the newline.  Every caller of write_line builds a
\* non-empty line that holds no newline.
NL == 0

\* sock_ is -1 while there is no connection, a descriptor otherwise.
NoSock == -1
Fd == 3

\* send() returns -1 on error.
SendError == -1

\* The request head (request line, Host, Content-Length, Content-Type,
\* Connection, blank line) counts as one unit of the bytes to send; the body
\* follows it.
HeaderLen == 1

Responses == {"204", "other", "closed"}

\* The variables of the functions that are followed on their own.
batchVars == <<config_batch_size>>
startVars == <<cmd, argv, config, exit_status, tasks_started>>
subVars   == <<this_sample, sample, this_before, NDEBUG, outcome>>
tickVars  == <<time_interval, sampling_warning_provided, warnings,
               time_to_wait, ticks>>
idemVars  == <<op, calls, after_once>>
diskVars  == <<partition_info, name_to_index, diskstats, samples_set,
               not_indexed, disk_written>>
unitVars  == <<upc, batchVars, startVars, subVars, tickVars, idemVars,
               diskVars>>

\* Their state in behaviours that follow the threads.
BatchIdle == config_batch_size = 1

StartIdle ==
    /\ cmd = "none"
    /\ argv = <<>>
    /\ config = "none"
    /\ exit_status = "none"
    /\ tasks_started = TRUE

SubIdle ==
    /\ this_sample = "none"
    /\ sample = "none"
    /\ this_before = "none"
    /\ NDEBUG = FALSE
    /\ outcome = "none"

TickIdle ==
    /\ time_interval = 1
    /\ sampling_warning_provided = <<>>
    /\ warnings = 0
    /\ time_to_wait = <<>>
    /\ ticks = <<>>

IdemIdle ==
    /\ op = "none"
    /\ calls = 0
    /\ after_once = <<>>

DiskIdle ==
    /\ partition_info = <<>>
    /\ name_to_index = <<>>
    /\ diskstats = {}
    /\ samples_set = <<>>
    /\ not_indexed = {}
    /\ disk_written = <<>>

UnitIdle ==
    /\ upc = "none"
    /\ BatchIdle
    /\ StartIdle
    /\ SubIdle
    /\ TickIdle
    /\ IdemIdle
    /\ DiskIdle

\* The state of the sink's variables in behaviours that do not follow a sink.
SinkAbsent ==
    /\ buffer_ = <<>>
    /\ current_batch_count_ = 0
    /\ batch_size_ = 1
    /\ writer_queue_ = <<>>
    /\ writer_mutex_ = "free"
    /\ running_ = FALSE
    /\ sock_ = NoSock
    /\ spc = "none"
    /\ wpc = "none"
    /\ payload = <<>>
    /\ total_sent = 0
    /\ response = "none"
    /\ conn_received = 0
    /\ written = <<>>
    /\ handed = <<>>
    /\ requested = <<>>
    /\ delivered = <<>>
    /\ attempts = 0
    /\ pushed_in_send = FALSE
    /\ after_flush = FALSE
    /\ last_response = "none"

----------------------------------------------------------------------------
(* pause_manager *)

\* A pause() that flips the flag.
pause_toggle ==
    /\ paused' = ~paused
    /\ UNCHANGED <<stopped, pause_mutex>>

\* pause(): a plain store to the atomic, no lock, no notification.
pause ==
    /\ paused' = TRUE
    /\ UNCHANGED <<stopped, pause_mutex>>

\* A resume() that puts the whole controller back to its running state.
resume_reset ==
    /\ ~pause_mutex
    /\ paused' = FALSE
    /\ stopped' = FALSE
    /\ UNCHANGED pause_mutex

\* resume(), first half: lock_guard on the mutex around the store.
resume_store ==
    /\ ~pause_mutex
    /\ paused' = FALSE
    /\ UNCHANGED <<stopped, pause_mutex>>

\* stop(), first half: the store, made without the mutex.
stop_store ==
    /\ stopped' = TRUE
    /\ UNCHANGED <<paused, pause_mutex>>

\* A notification that reaches nobody.
no_notify(pc) == pc

\* condition_variable().notify_all(): a thread in the wait set of pause_cv
\* leaves it and has to take the mutex again.
notify_all_pause_cv(pc) == IF pc = "pm_waiting" THEN "pm_relock" ELSE pc


\* The predicate the sampling thread waits for.
wait_predicate(m) ==
    IF UsesWaitIfPaused(m) THEN ~paused \/ stopped ELSE ~paused

\* The guard in front of the wait: `if (paused())`.
\* A producer that does not look at the flag.
paused_gate_open == FALSE

paused_gate == paused

----------------------------------------------------------------------------
(* ThreadSafeQueue *)

\* push(): queue_.push(item) under the mutex; stop_ is not looked at.
push(q, v) == Append(q, v)

\* The wait predicate of pop().
pop_ready(q, s) == q # <<>> \/ s

\* pop() returns false.
\* A pop that gives up as soon as the queue is closed.
pop_closed_eager(q, s) == s

pop_closed(q, s) == q = <<>> /\ s

\* A pop that takes the newest item.
pop_back(q) == q[Len(q)]

pop_front(q) == Head(q)

pop_rest(q) == Tail(q)

\* A notification that reaches nobody.
notify_nobody(pc) == pc

\* cond_var_.notify_one() / notify_all() with a single consumer.
notify_cond_var(pc) == IF pc = "pop_waiting" THEN "pop_relock" ELSE pc

----------------------------------------------------------------------------
(* main: the signal loop *)

\* The signals that may be waiting in the pipe at one time.
PipeRoom == IF ppc = "none" /\ cpc = "none" THEN MaxBurst ELSE MaxPipe

\* A read that takes the byte written last.
read_pipe_last(p) == p[Len(p)]

\* read(signal_pipe[0], &sig_byte, 1): the byte written first.
read_pipe(p) == Head(p)

\* A signal arrives; signal_handler writes its number to the pipe.
signal_handler(sig) ==
    /\ mpc \notin {"wait_tasks", "exit", "forced_exit", "exit_blocked", "driver"}
    /\ Len(signal_pipe) < PipeRoom
    /\ signal_pipe' = Append(signal_pipe, sig)
    /\ UNCHANGED <<sinkVars, unitVars, srcVars, metric, pmVars, mpc, running, ppc, cpc, queueVars, item,
                   produced, forwarded, histVars>>

\* resume(): store under the mutex.  Called after the tasks are launched
\* and again for every SIGUSR2.
MainResumeStore ==
    /\ mpc \in {"resume0", "resume"}
    /\ resume_store
    /\ mpc' = IF mpc = "resume0" THEN "resume0_notify" ELSE "resume_notify"
    /\ paused_pushes' = 0
    /\ UNCHANGED <<sinkVars, unitVars, srcVars, metric, running, signal_pipe, ppc, cpc,
                   queueVars, item, produced, forwarded, stop_at>>

\* resume(): notify_all after the lock is released.
MainResumeNotify ==
    /\ mpc \in {"resume0_notify", "resume_notify"}
    /\ ppc' = notify_all_pause_cv(ppc)
    /\ mpc' = IF mpc = "resume0_notify" THEN "select" ELSE "read"
    /\ UNCHANGED <<sinkVars, unitVars, srcVars, metric, pmVars, running, signal_pipe, cpc,
                   queueVars, item, produced, forwarded, histVars>>

\* select() returns because the pipe is readable.
MainSelect ==
    /\ mpc = "select"
    /\ signal_pipe # <<>>
    /\ mpc' = "read"
    /\ UNCHANGED <<sinkVars, unitVars, srcVars, metric, pmVars, running, signal_pipe, ppc, cpc,
                   queueVars, item, produced, forwarded, histVars>>

\* select() fails with an error other than EINTR: the loop is left.
MainSelectError ==
    /\ mpc = "select"
    /\ mpc' = "wait_tasks"
    /\ UNCHANGED <<sinkVars, unitVars, srcVars, metric, pmVars, running, signal_pipe, ppc, cpc,
                   queueVars, item, produced, forwarded, histVars>>

\* Where stop() finds the sampling thread: inside the wait for the end of
\* the pause ("blocked"), or outside it with paused false ("running") or
\* true ("paused").
stop_found ==
    IF paused /\ ppc \in {"pm_lock", "pm_pred", "pm_wait", "pm_waiting", "pm_relock"}
    THEN "blocked"
    ELSE IF paused THEN "paused" ELSE "running"

\* read() yields SIGINT: stop() stores the flag.
MainReadSIGINT ==
    /\ mpc = "read"
    /\ signal_pipe # <<>> /\ read_pipe(signal_pipe) = SIGINT
    /\ signal_pipe' = Tail(signal_pipe)
    /\ stop_store
    /\ stop_at' = IF stop_at # "no" THEN stop_at ELSE stop_found
    /\ mpc' = "stop_notify"
    /\ UNCHANGED <<sinkVars, unitVars, srcVars, metric, running, ppc, cpc, queueVars, item,
                   produced, forwarded, paused_pushes>>

\* stop(): notify_all; then running = false.
MainStopNotify ==
    /\ mpc = "stop_notify"
    /\ ppc' = notify_all_pause_cv(ppc)
    /\ running' = FALSE
    /\ mpc' = "read"
    /\ UNCHANGED <<sinkVars, unitVars, srcVars, metric, pmVars, signal_pipe, cpc, queueVars,
                   item, produced, forwarded, histVars>>

\* read() yields SIGUSR1: pause().
MainReadSIGUSR1 ==
    /\ mpc = "read"
    /\ signal_pipe # <<>> /\ read_pipe(signal_pipe) = SIGUSR1
    /\ signal_pipe' = Tail(signal_pipe)
    /\ pause
    /\ paused_pushes' = 0
    /\ UNCHANGED <<sinkVars, unitVars, srcVars, metric, mpc, running, ppc, cpc, queueVars, item,
                   produced, forwarded, stop_at>>

\* read() yields SIGUSR2: resume() is entered.
MainReadSIGUSR2 ==
    /\ mpc = "read"
    /\ signal_pipe # <<>> /\ read_pipe(signal_pipe) = SIGUSR2
    /\ signal_pipe' = Tail(signal_pipe)
    /\ mpc' = "resume"
    /\ UNCHANGED <<sinkVars, unitVars, srcVars, metric, pmVars, running, ppc, cpc, queueVars,
                   item, produced, forwarded, histVars>>

\* read() finds the pipe empty: back to `while (running)`.
MainReadEmpty ==
    /\ mpc = "read"
    /\ signal_pipe = <<>>
    /\ mpc' = IF running THEN "select" ELSE "wait_tasks"
    /\ UNCHANGED <<sinkVars, unitVars, srcVars, metric, pmVars, running, signal_pipe, ppc, cpc,
                   queueVars, item, produced, forwarded, histVars>>

\* The task's future is ready: start_sampling has returned.
TaskDone == IF QueueBased(metric) THEN cpc = "done" ELSE ppc = "done"

\* task.wait_until(deadline) returns ready.
MainTasksReady ==
    /\ mpc = "wait_tasks"
    /\ TaskDone
    /\ mpc' = "exit"
    /\ UNCHANGED <<sinkVars, unitVars, srcVars, metric, pmVars, running, signal_pipe, ppc, cpc,
                   queueVars, item, produced, forwarded, histVars>>

\* exit(0) destroys the objects of static storage, pause_manager's
\* singleton_ with its condition variable among them.  A condition variable
\* may be destroyed only when no thread is blocked on it; with the sampling
\* thread still blocked in its wait the behaviour is undefined: the process
\* is gone ("forced_exit"), or the destructor waits for the waiter to leave
\* and main stays in exit() ("exit_blocked").
exit_outcomes ==
    IF ppc = "pm_waiting" THEN {"forced_exit", "exit_blocked"}
                          ELSE {"forced_exit"}

\* task.wait_until(deadline) times out: exit(0).  There is no clock here, so
\* the deadline may pass at any moment the task is not ready; only main's
\* position records it, and the worker threads are left to take whatever
\* steps they still can, so that the properties below speak of what the
\* threads do by themselves and not of the process being cut short.
MainTimeout ==
    /\ mpc = "wait_tasks"
    /\ ~TaskDone
    /\ mpc' \in exit_outcomes
    /\ UNCHANGED <<sinkVars, unitVars, srcVars, metric, pmVars, running, signal_pipe, ppc, cpc,
                   queueVars, item, produced, forwarded, histVars>>

Main ==
    \/ MainResumeStore \/ MainResumeNotify
    \/ MainSelect \/ MainSelectError
    \/ MainReadSIGINT \/ MainStopNotify
    \/ MainReadSIGUSR1 \/ MainReadSIGUSR2 \/ MainReadEmpty
    \/ MainTasksReady \/ MainTimeout

----------------------------------------------------------------------------
(* The producer thread: cpu_producer, cpufreq_producer, disk_producer,      *)
(* mem_producer, ib_producer; for net the loop of net::start_sampling.      *)

\* The number the next snapshot carries: snapshots are numbered in the
\* order they are taken (their timestamp).
next_snapshot == Len(produced) + 1

\* A producer that samples although it has no source.
open_failed_samples == "loop"

\* if (fd < 0) { queue.stop(); return; }
open_failed == "close"

\* The source is opened (cpu, disk, mem) or enumerated (ib).  Without it
\* the producer closes the queue and returns.
ProdOpen ==
    /\ ppc = "open"
    /\ OpensSource(metric)
    /\ \E ok \in BOOLEAN :
        /\ ppc' = IF ok THEN "loop" ELSE open_failed
        /\ source' = IF ok THEN "open" ELSE "missing"
    /\ UNCHANGED <<sinkVars, unitVars, reads, metric, pmVars, mainVars, cpc, queueVars, item, produced,
                   forwarded, histVars>>

\* cpufreq::start_sampling enumerates the sources before it creates the
\* queue and the thread; with none it returns at once.
CpufreqSources ==
    /\ ppc = "open"
    /\ metric = "cpufreq"
    /\ \E ok \in BOOLEAN :
        /\ ppc' = IF ok THEN "loop" ELSE "done"
        /\ cpc' = IF ok THEN cpc ELSE "done"
        /\ source' = IF ok THEN "open" ELSE "missing"
    /\ UNCHANGED <<sinkVars, unitVars, reads, metric, pmVars, mainVars, queueVars, item, produced,
                   forwarded, histVars>>

\* net::start_sampling reads the first cumulated sample and sleeps one
\* interval before its loop.
NetFirstSample ==
    /\ ppc = "open"
    /\ metric = "net"
    /\ reads' = reads + 1
    /\ ppc' = "loop"
    /\ UNCHANGED <<sinkVars, unitVars, source, metric, pmVars, mainVars, cpc, queueVars, item, produced,
                   forwarded, histVars>>

\* A producer that returns from its loop without closing the queue.
ProdLoopReturns ==
    /\ ppc = "loop"
    /\ stopped \/ Len(produced) < MaxSamples
    /\ ppc' = IF ~stopped THEN "gate" ELSE "done"
    /\ UNCHANGED <<sinkVars, unitVars, srcVars, metric, pmVars, mainVars, cpc, queueVars, item, produced,
                   forwarded, histVars>>

\* while (!pause_manager::stopped())
ProdLoop ==
    /\ ppc = "loop"
    /\ stopped \/ Len(produced) < MaxSamples
    /\ ppc' = IF ~stopped THEN "gate"
              ELSE IF QueueBased(metric) THEN "close" ELSE "done"
    /\ UNCHANGED <<sinkVars, unitVars, srcVars, metric, pmVars, mainVars, cpc, queueVars, item, produced,
                   forwarded, histVars>>

\* if (paused()) in wait_if_paused, if (pause_manager::paused()) in net, ib.
ProdGate ==
    /\ ppc = "gate"
    /\ ppc' = IF paused_gate THEN "pm_lock" ELSE "sample"
    /\ UNCHANGED <<sinkVars, unitVars, srcVars, metric, pmVars, mainVars, cpc, queueVars, item, produced,
                   forwarded, histVars>>

\* std::unique_lock<std::mutex> lock(mutex()), and the lock taken again
\* when a wait ends.
ProdLock ==
    /\ ppc \in {"pm_lock", "pm_relock"}
    /\ ~pause_mutex
    /\ pause_mutex' = TRUE
    /\ ppc' = "pm_pred"
    /\ UNCHANGED <<sinkVars, unitVars, srcVars, metric, paused, stopped, mainVars, cpc, queueVars, item,
                   produced, forwarded, histVars>>

\* condition_variable().wait(lock, pred): the predicate is evaluated with
\* the lock held.  True: the wait is over and the lock released.
ProdPredTrue ==
    /\ ppc = "pm_pred"
    /\ wait_predicate(metric)
    /\ pause_mutex' = FALSE
    /\ ppc' = "sample"
    /\ UNCHANGED <<sinkVars, unitVars, srcVars, metric, paused, stopped, mainVars, cpc, queueVars, item,
                   produced, forwarded, histVars>>

\* False: the thread is about to wait, still holding the lock.
ProdPredFalse ==
    /\ ppc = "pm_pred"
    /\ ~wait_predicate(metric)
    /\ ppc' = "pm_wait"
    /\ UNCHANGED <<sinkVars, unitVars, srcVars, metric, pmVars, mainVars, cpc, queueVars, item, produced,
                   forwarded, histVars>>

\* wait(lock): the lock is released and the thread enters the wait set, in
\* one step.
ProdWait ==
    /\ ppc = "pm_wait"
    /\ pause_mutex' = FALSE
    /\ ppc' = "pm_waiting"
    /\ UNCHANGED <<sinkVars, unitVars, srcVars, metric, paused, stopped, mainVars, cpc, queueVars, item,
                   produced, forwarded, histVars>>

\* A condition variable may wake a waiter that nobody notified.
ProdSpuriousWakeup ==
    /\ ppc = "pm_waiting"
    /\ ppc' = "pm_relock"
    /\ UNCHANGED <<sinkVars, unitVars, srcVars, metric, pmVars, mainVars, cpc, queueVars, item, produced,
                   forwarded, histVars>>

\* One sample is read and pushed: queue.push(std::move(sample)).
ProdSample ==
    /\ ppc = "sample"
    /\ QueueBased(metric)
    /\ ~mutex_
    /\ queue_' = push(queue_, next_snapshot)
    /\ produced' = Append(produced, next_snapshot)
    /\ paused_pushes' = IF paused THEN paused_pushes + 1 ELSE paused_pushes
    /\ ppc' = "push_notify"
    /\ reads' = reads + 1
    /\ UNCHANGED <<sinkVars, unitVars, source, metric, pmVars, mainVars, cpc, stop_, mutex_, item,
                   forwarded, stop_at>>

\* push(): cond_var_.notify_one() after the lock is released.
ProdPushNotify ==
    /\ ppc = "push_notify"
    /\ cpc' = notify_cond_var(cpc)
    /\ ppc' = "sleep"
    /\ UNCHANGED <<sinkVars, unitVars, srcVars, metric, pmVars, mainVars, queueVars, item, produced,
                   forwarded, histVars>>

\* net: the sample is read, subtracted and written to the stream by the
\* sampling loop itself.
NetSample ==
    /\ ppc = "sample"
    /\ metric = "net"
    /\ produced' = Append(produced, next_snapshot)
    /\ forwarded' = Append(forwarded, next_snapshot)
    /\ paused_pushes' = IF paused THEN paused_pushes + 1 ELSE paused_pushes
    /\ ppc' = "sleep"
    /\ reads' = reads + 1
    /\ UNCHANGED <<sinkVars, unitVars, source, metric, pmVars, mainVars, cpc, queueVars, item,
                   stop_at>>

\* The sleep until the next tick.
sleep_for ==
    /\ ppc = "sleep"
    /\ ppc' = "loop"
    /\ UNCHANGED <<sinkVars, unitVars, srcVars, metric, pmVars, mainVars, cpc, queueVars, item, produced,
                   forwarded, histVars>>

\* queue.stop(): stop_ = true under the mutex.
ProdClose ==
    /\ ppc = "close"
    /\ ~mutex_
    /\ stop_' = TRUE
    /\ ppc' = "close_notify"
    /\ UNCHANGED <<sinkVars, unitVars, srcVars, metric, pmVars, mainVars, cpc, queue_, mutex_, item,
                   produced, forwarded, histVars>>

\* queue.stop(): cond_var_.notify_all(); the producer returns.
ProdCloseNotify ==
    /\ ppc = "close_notify"
    /\ cpc' = notify_cond_var(cpc)
    /\ ppc' = "done"
    /\ UNCHANGED <<sinkVars, unitVars, srcVars, metric, pmVars, mainVars, queueVars, item, produced,
                   forwarded, histVars>>

Producer ==
    \/ ProdOpen \/ CpufreqSources \/ NetFirstSample
    \/ ProdLoop \/ ProdGate \/ ProdLock \/ ProdPredTrue \/ ProdPredFalse
    \/ ProdWait \/ ProdSample \/ ProdPushNotify \/ NetSample \/ sleep_for
    \/ ProdClose \/ ProdCloseNotify

----------------------------------------------------------------------------
(* The consumer: the loop of start_sampling around queue.pop().             *)

\* pop(): std::unique_lock<std::mutex> lock(mutex_), and the lock taken
\* again when a wait ends.
PopLock ==
    /\ cpc \in {"pop", "pop_relock"}
    /\ ~mutex_
    /\ mutex_' = TRUE
    /\ cpc' = "pop_locked"
    /\ UNCHANGED <<sinkVars, unitVars, srcVars, metric, pmVars, mainVars, ppc, queue_, stop_, item,
                   produced, forwarded, histVars>>

\* pop(): cond_var_.wait(lock, pred) with the predicate false.  Writers
\* take the mutex, so evaluating the predicate and entering the wait set
\* are one step.
PopWait ==
    /\ cpc = "pop_locked"
    /\ ~pop_ready(queue_, stop_)
    /\ mutex_' = FALSE
    /\ cpc' = "pop_waiting"
    /\ UNCHANGED <<sinkVars, unitVars, srcVars, metric, pmVars, mainVars, ppc, queue_, stop_, item,
                   produced, forwarded, histVars>>

\* A condition variable may wake a waiter that nobody notified.
PopSpuriousWakeup ==
    /\ cpc = "pop_waiting"
    /\ cpc' = "pop_relock"
    /\ UNCHANGED <<sinkVars, unitVars, srcVars, metric, pmVars, mainVars, ppc, queueVars, item, produced,
                   forwarded, histVars>>

\* pop() returns false: empty and stopped.
PopClosed ==
    /\ cpc = "pop_locked"
    /\ pop_ready(queue_, stop_)
    /\ pop_closed(queue_, stop_)
    /\ mutex_' = FALSE
    /\ cpc' = "closed"
    /\ UNCHANGED <<sinkVars, unitVars, srcVars, metric, pmVars, mainVars, ppc, queue_, stop_, item,
                   produced, forwarded, histVars>>

\* pop() returns true: item = front, queue_.pop().
PopItem ==
    /\ cpc = "pop_locked"
    /\ pop_ready(queue_, stop_)
    /\ ~pop_closed(queue_, stop_)
    /\ item' = pop_front(queue_)
    /\ queue_' = pop_rest(queue_)
    /\ mutex_' = FALSE
    /\ cpc' = "popped"
    /\ UNCHANGED <<sinkVars, unitVars, srcVars, metric, pmVars, mainVars, ppc, stop_, produced, forwarded,
                   histVars>>

\* while (queue.pop(sample)) ends.
ConsLoopEnd ==
    /\ cpc = "closed"
    /\ cpc' = "join"
    /\ UNCHANGED <<sinkVars, unitVars, srcVars, metric, pmVars, mainVars, ppc, queueVars, item, produced,
                   forwarded, histVars>>

\* A consumer loop that forwards what it has popped without the check.
ConsNoCheck ==
    /\ cpc = "popped"
    /\ cpc' = "forward"
    /\ UNCHANGED <<sinkVars, unitVars, srcVars, metric, pmVars, mainVars, ppc, queueVars, item, produced,
                   forwarded, histVars>>

\* if (pause_manager::stopped()) break;
ConsCheckStopped ==
    /\ cpc = "popped"
    /\ cpc' = IF stopped THEN "join" ELSE "forward"
    /\ UNCHANGED <<sinkVars, unitVars, srcVars, metric, pmVars, mainVars, ppc, queueVars, item, produced,
                   forwarded, histVars>>

\* stream << sample;
ConsForward ==
    /\ cpc = "forward"
    /\ forwarded' = Append(forwarded, item)
    /\ cpc' = "pop"
    /\ UNCHANGED <<sinkVars, unitVars, srcVars, metric, pmVars, mainVars, ppc, queueVars, item, produced,
                   histVars>>

\* producer_thread.join(); start_sampling returns.
ConsJoin ==
    /\ cpc = "join"
    /\ ppc = "done"
    /\ cpc' = "done"
    /\ UNCHANGED <<sinkVars, unitVars, srcVars, metric, pmVars, mainVars, ppc, queueVars, item, produced,
                   forwarded, histVars>>

Consumer ==
    \/ PopLock \/ PopWait \/ PopClosed \/ PopItem
    \/ ConsLoopEnd \/ ConsCheckStopped \/ ConsForward \/ ConsJoin

----------------------------------------------------------------------------
(* The process *)

Init ==
    /\ metric \in Metrics
    /\ paused = TRUE
    /\ stopped = FALSE
    /\ pause_mutex = FALSE
    /\ mpc = "resume0"
    /\ running = TRUE
    /\ signal_pipe = <<>>
    /\ ppc = "open"
    /\ cpc = IF QueueBased(metric) THEN "pop" ELSE "none"
    /\ queue_ = <<>>
    /\ stop_ = FALSE
    /\ mutex_ = FALSE
    /\ item = NoItem
    /\ produced = <<>>
    /\ forwarded = <<>>
    /\ paused_pushes = 0
    /\ stop_at = "no"
    /\ source = "unopened"
    /\ reads = 0
    /\ UnitIdle
    /\ SinkAbsent

Environment ==
    \/ \E sig \in Signals : signal_handler(sig)
    \/ ProdSpuriousWakeup
    \/ PopSpuriousWakeup

Next == Main \/ Producer \/ Consumer \/ Environment

Spec == Init /\ [][Next]_vars

\* The steps of main that do not depend on a failure of select().
MainProgress ==
    \/ MainResumeStore \/ MainResumeNotify \/ MainSelect
    \/ MainReadSIGINT \/ MainStopNotify
    \/ MainReadSIGUSR1 \/ MainReadSIGUSR2 \/ MainReadEmpty
    \/ MainTasksReady \/ MainTimeout

\* Every thread that can take a step eventually takes one, and a thread
\* that finds a mutex free again and again eventually gets it.  Signals,
\* failures of select() and spurious wakeups are not owed to anybody.
FairSpec ==
    /\ Spec
    /\ SF_vars(MainProgress)
    /\ SF_vars(Producer)
    /\ SF_vars(Consumer)

----------------------------------------------------------------------------
(* ThreadSafeQueue on its own: a driver thread in place of the producer     *)
(* calls push() and stop(), the consumer loop pops until pop() returns      *)
(* false.  The pause_manager is running and is never stopped.               *)

DriverPush(v) ==
    /\ ppc = "drv"
    /\ Len(produced) < MaxPush
    /\ ~mutex_
    /\ queue_' = push(queue_, v)
    /\ produced' = Append(produced, v)
    /\ ppc' = "drv_notify"
    /\ UNCHANGED <<sinkVars, unitVars, srcVars, metric, pmVars, mainVars, cpc, stop_, mutex_, item,
                   forwarded, histVars>>

\* The driver pushes, and has not called stop() before.
DriverPushOpen == \E v \in 1..MaxItem : ~stop_ /\ DriverPush(v)

\* The driver pushes although it has called stop().
DriverPushClosed == \E v \in 1..MaxItem : stop_ /\ DriverPush(v)

DriverStop ==
    /\ ppc = "drv"
    /\ ~mutex_
    /\ stop_' = TRUE
    /\ ppc' = "drv_notify"
    /\ UNCHANGED <<sinkVars, unitVars, srcVars, metric, pmVars, mainVars, cpc, queue_, mutex_, item,
                   produced, forwarded, histVars>>

\* notify_one() of push(), notify_all() of stop().
DriverNotify ==
    /\ ppc = "drv_notify"
    /\ cpc' = notify_cond_var(cpc)
    /\ ppc' = "drv"
    /\ UNCHANGED <<sinkVars, unitVars, srcVars, metric, pmVars, mainVars, queueVars, item, produced,
                   forwarded, histVars>>

\* The driver thread ends after it has closed the queue.
DriverReturn ==
    /\ ppc = "drv"
    /\ stop_
    /\ ppc' = "done"
    /\ UNCHANGED <<sinkVars, unitVars, srcVars, metric, pmVars, mainVars, cpc, queueVars, item, produced,
                   forwarded, histVars>>

QInit ==
    /\ metric = "mem"
    /\ paused = FALSE
    /\ stopped = FALSE
    /\ pause_mutex = FALSE
    /\ mpc = "driver"
    /\ running = TRUE
    /\ signal_pipe = <<>>
    /\ ppc = "drv"
    /\ cpc = "pop"
    /\ queue_ = <<>>
    /\ stop_ = FALSE
    /\ mutex_ = FALSE
    /\ item = NoItem
    /\ produced = <<>>
    /\ forwarded = <<>>
    /\ paused_pushes = 0
    /\ stop_at = "no"
    /\ source = "unopened"
    /\ reads = 0
    /\ UnitIdle
    /\ SinkAbsent

\* Pushes, then stop().
QNext ==
    \/ DriverPushOpen \/ DriverStop \/ DriverNotify \/ DriverReturn
    \/ Consumer \/ PopSpuriousWakeup

QSpec == QInit /\ [][QNext]_vars

\* push() and stop() in any order.
QApiNext == QNext \/ DriverPushClosed

QApiSpec == QInit /\ [][QApiNext]_vars

\* The thread that has changed the queue goes on to its notify call, and the
\* consumer thread runs whenever it can.
FairQSpec ==
    /\ QApiSpec
    /\ WF_vars(DriverNotify)
    /\ SF_vars(Consumer)

----------------------------------------------------------------------------
(* db_stream: lines are buffered and handed to the writer in batches.       *)

\* write_line numbers the lines: the next line is the count of lines so far
\* plus one, as a one-character string.
next_line == <<Len(written) + 1>>

\* write_line that puts a newline in front of every line.
append_line_leading(buf, line) == buf \o <<NL>> \o line

\* write_line, the append: a newline between two lines, none before the first.
append_line(buf, line) ==
    IF buf # <<>> THEN buf \o <<NL>> \o line ELSE buf \o line

\* A batch that is handed off one line late.
batch_full_late(count, size) == count > size

\* write_line: current_batch_count_ >= batch_size_.
batch_full(count, size) == count >= size

\* A flush() that hands over whatever the buffer holds, even nothing.
flush_never_skips(buf) == FALSE

\* A flush() that also leaves a lone line where it is.
flush_skips_lone(buf) == Len(buf) <= 1

\* flush(): an empty buffer is left alone.
flush_skips(buf) == buf = <<>>

\* A destructor that does not flush.
dtor_never_flushes(buf) == FALSE

\* ~db_stream(): flush() if the buffer holds something.
dtor_flushes(buf) == buf # <<>>

\* AsyncInfluxDBWriter::push, the queue operation under the mutex.
writer_push(q, data) == Append(q, data)

\* cv_.notify_one() / cv_.notify_all(): the worker is the only waiter.
notify_cv(pc) == IF pc = "waiting" THEN "lock" ELSE pc

\* The worker is inside send_request.
SendPcs == {"send_request", "send", "read"}

\* A flush() that empties the buffer and leaves the counter as it is.
flush_keeps_count(buf, count, by, skip, after) ==
    IF flush_skips(buf)
    THEN /\ buffer_' = buf
         /\ current_batch_count_' = count
         /\ spc' = skip
         /\ UNCHANGED <<writer_queue_, handed, pushed_in_send>>
    ELSE /\ writer_mutex_ = "free"
         /\ writer_queue_' = writer_push(writer_queue_, buf)
         /\ buffer_' = <<>>
         /\ current_batch_count_' = count
         /\ handed' = Append(handed, [payload |-> buf, by |-> by])
         /\ pushed_in_send' = (pushed_in_send \/ wpc \in SendPcs)
         /\ spc' = after

\* flush() of a buffer holding buf with count lines, called from `by`; the
\* caller goes on at `after` once push() has notified.
flush(buf, count, by, skip, after) ==
    IF flush_skips(buf)
    THEN /\ buffer_' = buf
         /\ current_batch_count_' = count
         /\ spc' = skip
         /\ UNCHANGED <<writer_queue_, handed, pushed_in_send>>
    ELSE /\ writer_mutex_ = "free"
         /\ writer_queue_' = writer_push(writer_queue_, buf)
         /\ buffer_' = <<>>
         /\ current_batch_count_' = 0
         /\ handed' = Append(handed, [payload |-> buf, by |-> by])
         /\ pushed_in_send' = (pushed_in_send \/ wpc \in SendPcs)
         /\ spc' = after

\* db_stream::write_line(line).
DbWriteLine ==
    /\ spc = "ready"
    /\ Len(written) < MaxLines
    /\ LET buf == append_line(buffer_, next_line)
           count == current_batch_count_ + 1
       IN  IF batch_full(count, batch_size_)
           THEN flush(buf, count, "write_line", "ready", "notify")
           ELSE /\ buffer_' = buf
                /\ current_batch_count_' = count
                /\ UNCHANGED <<writer_queue_, handed, pushed_in_send, spc>>
    /\ written' = Append(written, next_line)
    /\ after_flush' = FALSE
    /\ UNCHANGED <<pipelineVars, unitVars, batch_size_, writer_mutex_, running_, sock_,
                   wpc, workerVars, requested, delivered, attempts,
                   last_response>>

\* db_stream::flush() called by the owner of the stream.
DbFlush ==
    /\ spc = "ready"
    /\ flush(buffer_, current_batch_count_, "flush", "ready", "notify")
    /\ after_flush' = TRUE
    /\ UNCHANGED <<pipelineVars, unitVars, batch_size_, writer_mutex_, running_, sock_,
                   wpc, workerVars, written, requested, delivered, attempts,
                   last_response>>

\* AsyncInfluxDBWriter::push, after the lock is released: cv_.notify_one().
DbPushNotify ==
    /\ spc \in {"notify", "dtor_notify"}
    /\ wpc' = notify_cv(wpc)
    /\ spc' = IF spc = "notify" THEN "ready" ELSE "stop"
    /\ UNCHANGED <<pipelineVars, unitVars, streamVars, writerVars, workerVars,
                   sinkHistVars>>

\* ~db_stream(): the task's lambda returns and its stream goes out of scope.
DbDestroy ==
    /\ spc = "ready"
    /\ IF dtor_flushes(buffer_)
       THEN flush(buffer_, current_batch_count_, "dtor", "stop", "dtor_notify")
       ELSE /\ spc' = "stop"
            /\ UNCHANGED <<buffer_, current_batch_count_, writer_queue_,
                           handed, pushed_in_send>>
    /\ after_flush' = FALSE
    /\ UNCHANGED <<pipelineVars, unitVars, batch_size_, writer_mutex_, running_, sock_,
                   wpc, workerVars, written, requested, delivered, attempts,
                   last_response>>

\* ~AsyncInfluxDBWriter() -> stop(): running_ = false under the mutex.
WriterStop ==
    /\ spc = "stop"
    /\ writer_mutex_ = "free"
    /\ running_' = FALSE
    /\ spc' = "stop_notify"
    /\ UNCHANGED <<pipelineVars, unitVars, streamVars, writer_queue_, writer_mutex_,
                   sock_, wpc, workerVars, sinkHistVars>>

\* stop(): cv_.notify_all().
WriterStopNotify ==
    /\ spc = "stop_notify"
    /\ wpc' = notify_cv(wpc)
    /\ spc' = "join"
    /\ UNCHANGED <<pipelineVars, unitVars, streamVars, writerVars, workerVars,
                   sinkHistVars>>

\* stop(): worker_.join() returns once the worker thread has exited.
WriterJoin ==
    /\ spc = "join"
    /\ wpc = "exited"
    /\ spc' = "destroyed"
    /\ UNCHANGED <<pipelineVars, unitVars, streamVars, writerVars, wpc, workerVars,
                   sinkHistVars>>

StreamOwner ==
    \/ DbWriteLine \/ DbFlush \/ DbPushNotify
    \/ DbDestroy \/ WriterStop \/ WriterStopNotify \/ WriterJoin

----------------------------------------------------------------------------
(* AsyncInfluxDBWriter: the worker thread and the requests it sends.        *)

\* worker_loop, the predicate of cv_.wait.
worker_ready(q, r) == q # <<>> \/ ~r

\* A worker that leaves as soon as running_ is false.
worker_done_eager(q, r) == ~r

\* worker_loop: break once the queue is empty and running_ is false.
worker_done(q, r) == q = <<>> /\ ~r

\* A worker that keeps the mutex after it has taken a payload.
scope_keeps(m) == m

\* worker_loop: the unique_lock goes out of scope before send_request.
scope_exit(m) == "free"

\* connect_to_server(): sock_ is a descriptor if the host resolved, the
\* socket opened and connect() succeeded, and -1 otherwise.
connect_to_server(ok) == IF ok THEN Fd ELSE NoSock

\* send_request: the bytes to send are the head and the body.
request_length(data) == HeaderLen + Len(data)

\* send(): an error, or some of the bytes that remain: the head alone of a
\* fresh request, or all that remain.
send_results(sent_so_far, len) ==
    {SendError} \cup {len - sent_so_far}
                \cup (IF sent_so_far = 0 THEN {HeaderLen} ELSE {})

\* A retry that goes on from the byte the failed send had reached.
restart_keeps(sent) == sent

\* send_request, after a successful reconnect: total_sent = 0.
restart_offset(sent) == 0

\* A worker that sends the payload again when the answer is not 204.
response_retry(resp) == IF resp = "other" THEN "send_request" ELSE "lock"

\* send_request returns after the response, whatever it is.
response_next(resp) == "lock"

\* worker_loop: unique_lock lock(mutex_).
WorkerLock ==
    /\ wpc = "lock"
    /\ writer_mutex_ = "free"
    /\ writer_mutex_' = "worker"
    /\ wpc' = "locked"
    /\ UNCHANGED <<pipelineVars, unitVars, streamVars, writer_queue_, running_, sock_,
                   spc, workerVars, sinkHistVars>>

\* cv_.wait: the predicate is false, the worker releases the mutex and blocks.
WorkerWait ==
    /\ wpc = "locked"
    /\ ~worker_ready(writer_queue_, running_)
    /\ writer_mutex_' = "free"
    /\ wpc' = "waiting"
    /\ UNCHANGED <<pipelineVars, unitVars, streamVars, writer_queue_, running_, sock_,
                   spc, workerVars, sinkHistVars>>

\* A spurious wakeup of cv_.wait.
WorkerSpuriousWakeup ==
    /\ wpc = "waiting"
    /\ wpc' = "lock"
    /\ UNCHANGED <<pipelineVars, unitVars, streamVars, writerVars, spc, workerVars,
                   sinkHistVars>>

\* worker_loop: queue empty and not running: break, close the socket.
WorkerBreak ==
    /\ wpc = "locked"
    /\ worker_ready(writer_queue_, running_)
    /\ worker_done(writer_queue_, running_)
    /\ writer_mutex_' = "free"
    /\ wpc' = "exited"
    /\ UNCHANGED <<pipelineVars, unitVars, streamVars, writer_queue_, running_, sock_,
                   spc, workerVars, sinkHistVars>>

\* Taking the batch at the wrong end of the queue.
writer_back(q) == q[Len(q)]

\* worker_loop: payload = std::move(queue_.front()).
writer_front(q) == Head(q)

\* worker_loop: take the front of the queue, leave the lock scope, and call
\* send_request if the payload is not empty.
WorkerTake ==
    /\ wpc = "locked"
    /\ worker_ready(writer_queue_, running_)
    /\ ~worker_done(writer_queue_, running_)
    /\ LET taken == IF writer_queue_ # <<>> THEN writer_front(writer_queue_)
                                            ELSE <<>>
       IN  /\ payload' = taken
           /\ writer_queue_' = IF writer_queue_ # <<>> THEN Tail(writer_queue_)
                                                       ELSE writer_queue_
           /\ wpc' = IF taken # <<>> THEN "send_request" ELSE "lock"
           /\ requested' = IF taken # <<>> THEN Append(requested, taken)
                                           ELSE requested
    /\ writer_mutex_' = scope_exit(writer_mutex_)
    /\ attempts' = 0
    /\ pushed_in_send' = FALSE
    /\ UNCHANGED <<pipelineVars, unitVars, streamVars, running_, sock_, spc, total_sent,
                   response, conn_received, written, handed, delivered,
                   last_response,
                   after_flush>>

\* send_request, entry: connect if there is no connection, return if that
\* fails; otherwise start sending from the first byte.
SendRequestEntry ==
    /\ wpc = "send_request"
    /\ \E ok \in BOOLEAN :
         /\ sock_' = IF sock_ < 0 THEN connect_to_server(ok) ELSE sock_
         /\ conn_received' = IF sock_ < 0 THEN 0 ELSE conn_received
         /\ IF sock_' < 0
            THEN /\ wpc' = "lock"
                 /\ UNCHANGED <<total_sent, attempts>>
            ELSE /\ wpc' = "send"
                 /\ total_sent' = 0
                 /\ attempts' = 1
    /\ UNCHANGED <<pipelineVars, unitVars, streamVars, writer_queue_, writer_mutex_,
                   running_, spc, payload, response, written, handed,
                   requested, delivered, pushed_in_send, last_response,
                   after_flush>>

\* send_request, one turn of the send loop that sends bytes.  The endpoint
\* has a request once it has received all of it on one connection, as the
\* Content-Length of the head announces.
SendBytes ==
    /\ wpc = "send"
    /\ \E sent \in send_results(total_sent, request_length(payload)) :
         /\ sent > 0
         /\ total_sent' = total_sent + sent
         /\ wpc' = IF total_sent' = request_length(payload) THEN "read"
                                                            ELSE wpc
         /\ IF conn_received + sent = request_length(payload)
            THEN /\ delivered' = Append(delivered, payload)
                 /\ conn_received' = 0
            ELSE /\ conn_received' = conn_received + sent
                 /\ UNCHANGED delivered
    /\ UNCHANGED <<pipelineVars, unitVars, streamVars, writerVars, spc, payload,
                   response, written, handed, requested, attempts,
                   pushed_in_send, last_response,
                   after_flush>>

\* send_request, one turn of the send loop in which send() fails: close,
\* connect again, and start over from the first byte if that worked.
SendFails ==
    /\ wpc = "send"
    /\ attempts < MaxAttempts
    /\ SendError \in send_results(total_sent, request_length(payload))
    /\ \E ok \in BOOLEAN :
         /\ sock_' = connect_to_server(ok)
         /\ conn_received' = 0
         /\ IF sock_' >= 0
            THEN /\ total_sent' = restart_offset(total_sent)
                 /\ attempts' = attempts + 1
                 /\ UNCHANGED wpc
            ELSE /\ wpc' = "lock"
                 /\ UNCHANGED <<total_sent, attempts>>
    /\ UNCHANGED <<pipelineVars, unitVars, streamVars, writer_queue_, writer_mutex_,
                   running_, spc, payload, response, written, handed,
                   requested, delivered, pushed_in_send, last_response,
                   after_flush>>

\* The endpoint answers the request it has received, or closes.
EndpointResponds ==
    /\ wpc = "read"
    /\ response = "none"
    /\ \E r \in Responses : response' = r
    /\ UNCHANGED <<pipelineVars, unitVars, streamVars, writerVars, spc, wpc, payload,
                   total_sent, conn_received, sinkHistVars>>

\* A read() that leaves sock_ as it is when no bytes came.
ReadResponseKeeps ==
    /\ wpc = "read"
    /\ response # "none"
    /\ conn_received' = 0
    /\ last_response' = response
    /\ wpc' = "lock"
    /\ response' = "none"
    /\ UNCHANGED <<pipelineVars, unitVars, streamVars, writerVars, spc, payload,
                   total_sent, written, handed, requested, delivered, attempts,
                   pushed_in_send, after_flush>>

\* send_request: read() returns; no bytes closes the socket, an answer other
\* than 204 is logged.
ReadResponse ==
    /\ wpc = "read"
    /\ response # "none"
    /\ sock_' = IF response = "closed" THEN NoSock ELSE sock_
    /\ conn_received' = 0
    /\ last_response' = response
    /\ wpc' = response_next(response)
    /\ response' = "none"
    /\ UNCHANGED <<pipelineVars, unitVars, streamVars, writer_queue_, writer_mutex_,
                   running_, spc, payload, total_sent, written, handed,
                   requested, delivered, attempts, pushed_in_send,
                   after_flush>>

Worker ==
    \/ WorkerLock \/ WorkerWait \/ WorkerBreak \/ WorkerTake
    \/ SendRequestEntry \/ SendBytes \/ SendFails \/ ReadResponse

\* A db_stream with its writer, the thread that owns it, and the endpoint.
DbInit ==
    /\ metric = "cpu"
    /\ paused = FALSE
    /\ stopped = FALSE
    /\ pause_mutex = FALSE
    /\ mpc = "sink"
    /\ running = TRUE
    /\ signal_pipe = <<>>
    /\ ppc = "sink"
    /\ cpc = "sink"
    /\ queue_ = <<>>
    /\ stop_ = FALSE
    /\ mutex_ = FALSE
    /\ item = NoItem
    /\ produced = <<>>
    /\ forwarded = <<>>
    /\ paused_pushes = 0
    /\ stop_at = "no"
    /\ source = "unopened"
    /\ reads = 0
    /\ UnitIdle
    /\ buffer_ = <<>>
    /\ current_batch_count_ = 0
    /\ batch_size_ \in 1..MaxBatch
    /\ writer_queue_ = <<>>
    /\ writer_mutex_ = "free"
    /\ running_ = TRUE
    /\ sock_ = NoSock
    /\ spc = "ready"
    /\ wpc = "lock"
    /\ payload = <<>>
    /\ total_sent = 0
    /\ response = "none"
    /\ conn_received = 0
    /\ written = <<>>
    /\ handed = <<>>
    /\ requested = <<>>
    /\ delivered = <<>>
    /\ attempts = 0
    /\ pushed_in_send = FALSE
    /\ after_flush = FALSE
    /\ last_response = "none"

DbNext == StreamOwner \/ Worker \/ EndpointResponds \/ WorkerSpuriousWakeup

DbSpec == DbInit /\ [][DbNext]_vars

\* The threads are scheduled fairly; the endpoint owes nothing.
FairDbSpec == DbSpec /\ WF_vars(StreamOwner) /\ WF_vars(Worker)

----------------------------------------------------------------------------
(* main: the signal loop on its own, with room for a burst of signals *)

SigInit ==
    /\ metric = "cpu"
    /\ paused = TRUE
    /\ stopped = FALSE
    /\ pause_mutex = FALSE
    /\ mpc = "resume0"
    /\ running = TRUE
    /\ signal_pipe = <<>>
    /\ ppc = "none"
    /\ cpc = "none"
    /\ queue_ = <<>>
    /\ stop_ = FALSE
    /\ mutex_ = FALSE
    /\ item = NoItem
    /\ produced = <<>>
    /\ forwarded = <<>>
    /\ paused_pushes = 0
    /\ stop_at = "no"
    /\ source = "unopened"
    /\ reads = 0
    /\ UnitIdle
    /\ SinkAbsent

SigNext ==
    \/ \E sig \in Signals : signal_handler(sig)
    \/ MainResumeStore \/ MainResumeNotify
    \/ MainSelect
    \/ MainReadSIGINT \/ MainStopNotify
    \/ MainReadSIGUSR1 \/ MainReadSIGUSR2 \/ MainReadEmpty

SigSpec == SigInit /\ [][SigNext]_vars

----------------------------------------------------------------------------
(* main: the batch size of a metric's db_stream *)

\* The pipeline's variables before any task is launched.
NoThreads ==
    /\ paused = TRUE
    /\ stopped = FALSE
    /\ pause_mutex = FALSE
    /\ mpc = "startup"
    /\ running = TRUE
    /\ signal_pipe = <<>>
    /\ ppc = "none"
    /\ cpc = "none"
    /\ queue_ = <<>>
    /\ stop_ = FALSE
    /\ mutex_ = FALSE
    /\ item = NoItem
    /\ produced = <<>>
    /\ forwarded = <<>>
    /\ paused_pushes = 0
    /\ stop_at = "no"
    /\ source = "unopened"
    /\ reads = 0

\* get_batch_size: the base for cpu and cpufreq, a hundredth of it for mem,
\* disk and ib, a tenth for net, and at least 10 for those four.
get_batch_size(m, base_batch_size) ==
    IF m \in {"cpu", "cpufreq"} THEN base_batch_size
    ELSE IF m \in {"mem", "disk", "ib"}
         THEN IF base_batch_size \div 100 < 10 THEN 10
                                               ELSE base_batch_size \div 100
         ELSE IF m = "net"
              THEN IF base_batch_size \div 10 < 10 THEN 10
                                                   ELSE base_batch_size \div 10
              ELSE base_batch_size

\* The task of a metric with a remote endpoint:
\* stream.set_buffer_size(get_batch_size(metric, config.batch_size)).
SetBufferSize ==
    /\ upc = "set_buffer_size"
    /\ batch_size_' = get_batch_size(metric, config_batch_size)
    /\ upc' = "start_sampling"
    /\ UNCHANGED <<pipelineVars, idemVars, diskVars, batchVars, startVars, subVars, tickVars,
                   buffer_, current_batch_count_, writerVars, spc, wpc,
                   workerVars, sinkHistVars>>

BatchInit ==
    /\ metric \in Metrics
    /\ NoThreads
    /\ IdemIdle
    /\ DiskIdle
    /\ SinkAbsent
    /\ upc = "set_buffer_size"
    /\ config_batch_size \in 1..MaxBase
    /\ StartIdle
    /\ SubIdle
    /\ TickIdle

BatchNext == SetBufferSize

BatchSpec == BatchInit /\ [][BatchNext]_vars

----------------------------------------------------------------------------
(* main: startup, from the command line to the launch of the tasks *)

\* A double: a number or NaN.
Double(v) == [nan |-> FALSE, v |-> v]
NaN == [nan |-> TRUE, v |-> 0]

\* Comparisons of a double with zero; every comparison with NaN is false.
le_zero(d) == ~d.nan /\ d.v <= 0
eq_zero(d) == ~d.nan /\ d.v = 0
gt_zero(d) == ~d.nan /\ d.v > 0

\* std::stod and std::stoi on the value tokens used here: they throw
\* std::invalid_argument on text that is no number, and stod reads "nan".
stod(tok) ==
    CASE tok = "nan" -> [ok |-> TRUE, d |-> NaN]
      [] tok = "-1"  -> [ok |-> TRUE, d |-> Double(-1)]
      [] tok = "0"   -> [ok |-> TRUE, d |-> Double(0)]
      [] tok = "2"   -> [ok |-> TRUE, d |-> Double(2)]
      [] OTHER       -> [ok |-> FALSE, d |-> Double(0)]

stoi(tok) ==
    CASE tok = "-1" -> [ok |-> TRUE, n |-> -1]
      [] tok = "0"  -> [ok |-> TRUE, n |-> 0]
      [] tok = "2"  -> [ok |-> TRUE, n |-> 2]
      [] OTHER      -> [ok |-> FALSE, n |-> 0]

\* argv[i + 1][0] == '-'
StartsWithDash(tok) ==
    tok \in {"--sampling-frequency", "--cpu", "--cpu-freq", "--disk", "--mem",
             "--net", "--ib", "--log-level", "--grafana", "--batch-size",
             "--bogus", "-1"}

\* The flag of each metric and its key in output_files.
MetricFlags == {"--cpu", "--cpu-freq", "--disk", "--mem", "--net", "--ib"}
MetricKey(flag) ==
    CASE flag = "--cpu" -> "cpu"
      [] flag = "--cpu-freq" -> "cpu-freq"
      [] flag = "--disk" -> "disk"
      [] flag = "--mem" -> "mem"
      [] flag = "--net" -> "net"
      [] flag = "--ib" -> "ib"
MetricKeys == {MetricKey(f) : f \in MetricFlags}

\* monitor_config as it is constructed.
monitor_config ==
    [enabled |-> {},
     sampling_frequency |-> Double(0),
     grafana_address |-> "",
     batch_size |-> 1,
     output_files |-> [k \in MetricKeys |-> ""]]

Thrown == [thrown |-> TRUE, config |-> monitor_config]

\* parse_arguments, the loop over argv from index i.
RECURSIVE parse_loop(_, _, _)
parse_loop(args, i, c) ==
    IF i > Len(args) THEN [thrown |-> FALSE, config |-> c]
    ELSE LET arg == args[i]
             last == i + 1 > Len(args)
         IN
         IF arg = "--sampling-frequency"
         THEN IF last THEN Thrown
              ELSE LET r == stod(args[i + 1]) IN
                   IF ~r.ok \/ le_zero(r.d) THEN Thrown
                   ELSE parse_loop(args, i + 2,
                                   [c EXCEPT !.sampling_frequency = r.d])
         ELSE IF arg \in MetricFlags
         THEN LET on == [c EXCEPT !.enabled = @ \cup {MetricKey(arg)}] IN
              IF ~last /\ ~StartsWithDash(args[i + 1])
              THEN parse_loop(args, i + 2,
                        [on EXCEPT !.output_files[MetricKey(arg)] = args[i + 1]])
              ELSE parse_loop(args, i + 1, on)
         ELSE IF arg = "--log-level"
         THEN IF last THEN Thrown ELSE parse_loop(args, i + 2, c)
         ELSE IF arg = "--grafana"
         THEN IF last THEN Thrown
              ELSE parse_loop(args, i + 2,
                              [c EXCEPT !.grafana_address = args[i + 1]])
         ELSE IF arg = "--batch-size"
         THEN IF last THEN Thrown
              ELSE LET r == stoi(args[i + 1]) IN
                   IF ~r.ok \/ r.n <= 0 THEN Thrown
                   ELSE parse_loop(args, i + 2, [c EXCEPT !.batch_size = r.n])
         ELSE Thrown

\* parse_arguments: exit(1) with fewer than three arguments, the loop, and
\* the test that a frequency was given.
parse_arguments(args) ==
    IF Len(args) + 1 < 3 THEN [exit |-> TRUE, thrown |-> FALSE,
                               config |-> monitor_config]
    ELSE LET r == parse_loop(args, 1, monitor_config) IN
         IF r.thrown \/ eq_zero(r.config.sampling_frequency)
         THEN [exit |-> FALSE, thrown |-> TRUE, config |-> monitor_config]
         ELSE [exit |-> FALSE, thrown |-> FALSE, config |-> r.config]

\* main: config = parse_arguments(argc, argv); std::invalid_argument is
\* caught and main returns -1.
MainParseArguments ==
    /\ upc = "parse_arguments"
    /\ LET r == parse_arguments(argv) IN
         /\ config' = IF r.exit \/ r.thrown THEN config ELSE r.config
         /\ exit_status' = IF r.exit THEN 1 ELSE IF r.thrown THEN -1
                                                ELSE exit_status
         /\ upc' = IF r.exit \/ r.thrown THEN "exited" ELSE "checks"
    /\ UNCHANGED <<pipelineVars, idemVars, diskVars, sinkVars, batchVars, subVars, tickVars,
                   cmd, argv, tasks_started>>

\* An enabled metric without an output file, with no remote endpoint.
missing_output(c) ==
    /\ c.grafana_address = ""
    /\ \E k \in c.enabled : c.output_files[k] = ""

\* main: the signal pipe is made, the handlers are installed, and every
\* enabled metric must have an output file unless there is an endpoint.
MainStartupChecks ==
    /\ upc = "checks"
    /\ \E pipe_ok \in BOOLEAN :
         LET fails == ~pipe_ok \/ missing_output(config) IN
         /\ exit_status' = IF fails THEN -1 ELSE exit_status
         /\ upc' = IF fails THEN "exited" ELSE "launch"
    /\ UNCHANGED <<pipelineVars, idemVars, diskVars, sinkVars, batchVars, subVars, tickVars,
                   cmd, argv, config, tasks_started>>

\* main: the tasks are launched with std::async.
MainLaunchTasks ==
    /\ upc = "launch"
    /\ tasks_started' = TRUE
    /\ upc' = "launched"
    /\ UNCHANGED <<pipelineVars, idemVars, diskVars, sinkVars, batchVars, subVars, tickVars,
                   cmd, argv, config, exit_status>>

\* The command lines tried: how the frequency is given, two metrics that
\* are off, on with a path or on without one, an endpoint, an unknown flag.
FreqArgs == {"absent", "novalue", "text", "nan", "neg", "zero", "pos"}
Commands ==
    [freq : FreqArgs, cpu : {"off", "path", "nopath"},
     mem : {"off", "path", "nopath"}, grafana : BOOLEAN, unknown : BOOLEAN]

MetricTokens(flag, how) ==
    CASE how = "off" -> <<>>
      [] how = "path" -> <<flag, "out">>
      [] how = "nopath" -> <<flag>>

FreqTokens(how) ==
    CASE how = "absent" -> <<>>
      [] how = "novalue" -> <<"--sampling-frequency">>
      [] how = "text" -> <<"--sampling-frequency", "abc">>
      [] how = "nan" -> <<"--sampling-frequency", "nan">>
      [] how = "neg" -> <<"--sampling-frequency", "-1">>
      [] how = "zero" -> <<"--sampling-frequency", "0">>
      [] how = "pos" -> <<"--sampling-frequency", "2">>

Tokens(c) ==
    MetricTokens("--cpu", c.cpu) \o MetricTokens("--mem", c.mem)
    \o (IF c.grafana THEN <<"--grafana", "addr">> ELSE <<>>)
    \o (IF c.unknown THEN <<"--bogus">> ELSE <<>>)
    \o FreqTokens(c.freq)

StartInit ==
    /\ metric = "cpu"
    /\ NoThreads
    /\ IdemIdle
    /\ DiskIdle
    /\ SinkAbsent
    /\ upc = "parse_arguments"
    /\ BatchIdle
    /\ SubIdle
    /\ TickIdle
    /\ cmd \in Commands
    /\ argv = Tokens(cmd)
    /\ config = monitor_config
    /\ exit_status = "none"
    /\ tasks_started = FALSE

StartNext == MainParseArguments \/ MainStartupChecks \/ MainLaunchTasks

StartSpec == StartInit /\ [][StartNext]_vars

----------------------------------------------------------------------------
(* data_sample::operator-= of disk and cpu *)

\* The counters are uint64_t and a difference wraps; the model keeps two of
\* them, modulo CounterRange.
CounterRange == 65536

minus(a, b) == [i \in DOMAIN a |-> (a[i] - b[i]) % CounterRange]

Counters == {<<1, 2>>, <<3, 5>>}

DiskSamples ==
    [device : {"sda", "sdb"}, major : {8, 259}, minor : {0, 1},
     index : {0, 1}, counters : Counters]

CpuSamples == [cpuid : {0, 1}, counters : Counters]

\* if (device != sample.device || major != sample.major ||
\*     minor != sample.minor || index != sample.index)
disk_key_differs(a, b) ==
    \/ a.device # b.device
    \/ a.major # b.major
    \/ a.minor # b.minor
    \/ a.index # b.index

\* disk::data_sample::operator-=: throws std::invalid_argument for samples
\* of different devices, and subtracts every counter otherwise.
DiskSubtract ==
    /\ upc = "disk_sub"
    /\ IF disk_key_differs(this_sample, sample)
       THEN /\ outcome' = "raised"
            /\ this_sample' = this_sample
       ELSE /\ outcome' = "returned"
            /\ this_sample' =
                 [this_sample EXCEPT !.counters = minus(@, sample.counters)]
    /\ upc' = "done"
    /\ UNCHANGED <<pipelineVars, idemVars, diskVars, sinkVars, batchVars, startVars, tickVars,
                   sample, this_before, NDEBUG>>

\* assert(sample.cpuid == cpuid): abort() when it fails, and nothing at all
\* in a build with NDEBUG.
assert_fails(a, b) == ~NDEBUG /\ b.cpuid # a.cpuid

\* cpu::data_sample::operator-=: the assert, then every counter is
\* subtracted.
CpuSubtract ==
    /\ upc = "cpu_sub"
    /\ IF assert_fails(this_sample, sample)
       THEN /\ outcome' = "aborted"
            /\ this_sample' = this_sample
       ELSE /\ outcome' = "returned"
            /\ this_sample' =
                 [this_sample EXCEPT !.counters = minus(@, sample.counters)]
    /\ upc' = "done"
    /\ UNCHANGED <<pipelineVars, idemVars, diskVars, sinkVars, batchVars, startVars, tickVars,
                   sample, this_before, NDEBUG>>

SubInit ==
    /\ metric \in {"disk", "cpu"}
    /\ NoThreads
    /\ IdemIdle
    /\ DiskIdle
    /\ SinkAbsent
    /\ BatchIdle
    /\ StartIdle
    /\ TickIdle
    /\ upc = IF metric = "disk" THEN "disk_sub" ELSE "cpu_sub"
    /\ this_sample \in IF metric = "disk" THEN DiskSamples ELSE CpuSamples
    /\ sample \in IF metric = "disk" THEN DiskSamples ELSE CpuSamples
    /\ this_before = this_sample
    /\ NDEBUG \in BOOLEAN
    /\ outcome = "none"

SubNext == DiskSubtract \/ CpuSubtract

SubSpec == SubInit /\ [][SubNext]_vars

----------------------------------------------------------------------------
(* The end of a tick: the producers of one process pace themselves *)

\* The producers with the overrun warning, and ib_producer.
WarningProducers == {"cpu", "disk"}
TickProducers == WarningProducers \cup {"ib"}

\* auto time_to_wait = time_interval - sampling_time;
remaining(sampling_time) == time_interval - sampling_time

\* cpu_producer, disk_producer (mem_producer, cpufreq_producer and net are
\* alike): a negative time_to_wait is set to 0 and the warning is logged
\* unless this producer's sampling_warning_provided is set; then sleep_for.
ProducerTick(p) ==
    /\ upc = "ticks"
    /\ ticks[p] < MaxTicks
    /\ \E sampling_time \in 0..MaxSamplingTime :
         LET over == remaining(sampling_time) < 0 IN
         /\ warnings' = IF over /\ ~sampling_warning_provided[p]
                         THEN warnings + 1 ELSE warnings
         /\ sampling_warning_provided' =
              [sampling_warning_provided EXCEPT ![p] = @ \/ over]
         /\ time_to_wait' =
              [time_to_wait EXCEPT ![p] = IF over THEN 0
                                         ELSE remaining(sampling_time)]
    /\ ticks' = [ticks EXCEPT ![p] = @ + 1]
    /\ UNCHANGED <<pipelineVars, idemVars, diskVars, sinkVars, upc, batchVars, startVars,
                   subVars, time_interval>>

\* ib_producer: sleeps for what is left of the interval, and not at all
\* when nothing is left; it has no warning.
IbTick ==
    /\ upc = "ticks"
    /\ ticks["ib"] < MaxTicks
    /\ \E elapsed \in 0..MaxSamplingTime :
         time_to_wait' =
            [time_to_wait EXCEPT !["ib"] = IF elapsed < time_interval
                                            THEN time_interval - elapsed
                                            ELSE 0]
    /\ ticks' = [ticks EXCEPT !["ib"] = @ + 1]
    /\ UNCHANGED <<pipelineVars, idemVars, diskVars, sinkVars, upc, batchVars, startVars,
                   subVars, time_interval, sampling_warning_provided,
                   warnings>>

TickInit ==
    /\ metric = "cpu"
    /\ NoThreads
    /\ IdemIdle
    /\ DiskIdle
    /\ SinkAbsent
    /\ BatchIdle
    /\ StartIdle
    /\ SubIdle
    /\ upc = "ticks"
    /\ time_interval \in 1..MaxInterval
    /\ sampling_warning_provided = [p \in WarningProducers |-> FALSE]
    /\ warnings = 0
    /\ time_to_wait = [p \in TickProducers |-> 0]
    /\ ticks = [p \in TickProducers |-> 0]

TickNext == (\E p \in WarningProducers : ProducerTick(p)) \/ IbTick

TickSpec == TickInit /\ [][TickNext]_vars

----------------------------------------------------------------------------
(* pause(), resume(), stop() and ThreadSafeQueue::stop() called twice in a   *)
(* row, from any state of the controller, the queue and their waiters.       *)

Operations == {"pause", "resume", "stop", "queue_stop"}

\* What the four operations read or write, and the threads they notify.
lifecycle == <<paused, stopped, pause_mutex, ppc, queue_, stop_, mutex_, cpc>>

Called ==
    /\ upc = "calls"
    /\ calls < MaxCalls
    /\ calls' = calls + 1
    /\ after_once' = IF calls = 0 THEN lifecycle' ELSE after_once
    /\ UNCHANGED <<sinkVars, metric, mainVars, item, produced, forwarded,
                   histVars, srcVars, upc, batchVars, startVars, subVars,
                   tickVars, diskVars, op>>

\* pause_manager::pause()
CallPause ==
    /\ op = "pause"
    /\ pause
    /\ UNCHANGED <<ppc, cpc, queueVars>>
    /\ Called

\* pause_manager::resume(): the store under the mutex, then notify_all().
CallResume ==
    /\ op = "resume"
    /\ resume_store
    /\ ppc' = notify_all_pause_cv(ppc)
    /\ UNCHANGED <<cpc, queueVars>>
    /\ Called

\* pause_manager::stop(): the store, then notify_all().
CallStop ==
    /\ op = "stop"
    /\ stop_store
    /\ ppc' = notify_all_pause_cv(ppc)
    /\ UNCHANGED <<cpc, queueVars>>
    /\ Called

\* ThreadSafeQueue::stop(): stop_ = true under the mutex, then notify_all().
CallQueueStop ==
    /\ op = "queue_stop"
    /\ ~mutex_
    /\ stop_' = TRUE
    /\ cpc' = notify_cond_var(cpc)
    /\ UNCHANGED <<pmVars, ppc, queue_, mutex_>>
    /\ Called

IdemInit ==
    /\ metric = "cpu"
    /\ paused \in BOOLEAN
    /\ stopped \in BOOLEAN
    /\ pause_mutex = FALSE
    /\ mpc = "startup"
    /\ running = TRUE
    /\ signal_pipe = <<>>
    /\ ppc \in {"pm_waiting", "sleep"}
    /\ cpc \in {"pop_waiting", "forward"}
    /\ queue_ \in {<<>>, <<1>>, <<1, 2>>}
    /\ stop_ \in BOOLEAN
    /\ mutex_ = FALSE
    /\ item = NoItem
    /\ produced = queue_
    /\ forwarded = <<>>
    /\ paused_pushes = 0
    /\ stop_at = "no"
    /\ source = "open"
    /\ reads = Len(queue_)
    /\ SinkAbsent
    /\ BatchIdle
    /\ StartIdle
    /\ SubIdle
    /\ TickIdle
    /\ DiskIdle
    /\ upc = "calls"
    /\ op \in Operations
    /\ calls = 0
    /\ after_once = <<>>

IdemNext == CallPause \/ CallResume \/ CallStop \/ CallQueueStop

IdemSpec == IdemInit /\ [][IdemNext]_vars

----------------------------------------------------------------------------
(* disk: the name-to-index table and read_disk_samples.  A device name is a  *)
(* pair of its leading letters and the rest: <<"sd", "a1">> is sda1.         *)

\* std::numeric_limits<uint32_t>::max(), the index of a name that is not in
\* the table.
NoIndex == -1

\* The names /sys/class/block can hold, and the ones get_partition_block_sizes
\* can return: it skips every name that contains "loop".
DiskNames == {<<"sd", "a">>, <<"sd", "a1">>, <<"sd", "b">>, <<"loop", "0">>,
              <<"dm", "-0">>}

SysNames == {d \in DiskNames : d[1] # "loop"}

\* Directory entries are distinct.
PartitionInfos ==
    {info \in UNION {[1..n -> SysNames] : n \in 0..MaxPartitions} :
        \A i, j \in DOMAIN info : info[i] = info[j] => i = j}

\* name_to_index[partition_info[i].name] = i, for i from 0.
build_index(info) ==
    [n \in {info[i] : i \in DOMAIN info} |->
        (CHOOSE i \in DOMAIN info :
            info[i] = n /\ \A j \in DOMAIN info : info[j] = n => j <= i) - 1]

starts_with(device, prefix) == device[1] = prefix

\* device.starts_with("loop") || device.starts_with("dm")
skipped_device(device) ==
    starts_with(device, "loop") \/ starts_with(device, "dm")

\* name_to_index.find(device), or the maximum when there is none.
find_index(table, device) ==
    IF device \in DOMAIN table THEN table[device] ELSE NoIndex

\* A read that takes every device as indexed.
indexed_always(index) == FALSE

\* if (index == std::numeric_limits<uint32_t>::max())
is_not_indexed(index) == index = NoIndex

\* The devices of the source that read_disk_samples logs and leaves out.
logged_devices(table, lines) ==
    {d \in lines : ~skipped_device(d) /\ is_not_indexed(find_index(table, d))}

\* read_disk_samples: samples_set[index] = sample for every other device
\* that is not skipped.
read_disk_samples(table, lines) ==
    LET kept == {d \in lines : /\ ~skipped_device(d)
                               /\ ~is_not_indexed(find_index(table, d))}
    IN  [i \in {find_index(table, d) : d \in kept} |->
            CHOOSE d \in kept : find_index(table, d) = i]

\* start_sampling: the table is filled from partition_info before the
\* producer thread is created.
DiskStart ==
    /\ upc = "disk_start"
    /\ name_to_index' = build_index(partition_info)
    /\ upc' = "disk_read"
    /\ UNCHANGED <<pipelineVars, sinkVars, batchVars, startVars, subVars,
                   tickVars, idemVars, partition_info, diskstats, samples_set,
                   not_indexed, disk_written>>

\* disk_producer, one turn: read_disk_samples and queue.push.
DiskSample ==
    /\ upc = "disk_read"
    /\ \E lines \in SUBSET DiskNames :
         /\ diskstats' = lines
         /\ samples_set' = read_disk_samples(name_to_index, lines)
         /\ not_indexed' = logged_devices(name_to_index, lines)
    /\ upc' = "disk_forward"
    /\ UNCHANGED <<pipelineVars, sinkVars, batchVars, startVars, subVars,
                   tickVars, idemVars, partition_info, name_to_index,
                   disk_written>>

\* start_sampling, one turn of the consumer loop: every sample of the set
\* that was popped is written to the stream.
DiskForward ==
    /\ upc = "disk_forward"
    /\ disk_written' = samples_set
    /\ upc' = "disk_read"
    /\ UNCHANGED <<pipelineVars, sinkVars, batchVars, startVars, subVars,
                   tickVars, idemVars, partition_info, name_to_index,
                   diskstats, samples_set, not_indexed>>

DiskInit ==
    /\ metric = "disk"
    /\ NoThreads
    /\ SinkAbsent
    /\ BatchIdle
    /\ StartIdle
    /\ SubIdle
    /\ TickIdle
    /\ IdemIdle
    /\ upc = "disk_start"
    /\ partition_info \in PartitionInfos
    /\ name_to_index = <<>>
    /\ diskstats = {}
    /\ samples_set = <<>>
    /\ not_indexed = {}
    /\ disk_written = <<>>

DiskNext == DiskStart \/ DiskSample \/ DiskForward

DiskSpec == DiskInit /\ [][DiskNext]_vars

----------------------------------------------------------------------------
(* Properties *)

IsPrefix(s, t) == Len(s) <= Len(t) /\ s = SubSeq(t, 1, Len(s))

\* The sampling thread is inside the wait for the end of the pause: it has
\* seen paused and has not yet come back from the wait.
InPauseWait == ppc \in {"pm_lock", "pm_pred", "pm_wait", "pm_waiting", "pm_relock"}

\* C1: pushes followed by stop(): what the consumer has received is at all
\* times the beginning of what was pushed, in push order, and when pop() has
\* returned false the consumer has received everything that was pushed.
C1_DrainInOrder ==
    /\ IsPrefix(forwarded, produced)
    /\ cpc \in {"closed", "join", "done"} => forwarded = produced

C1_Witness ==
    /\ cpc = "closed"
    /\ Len(produced) >= 2
    /\ forwarded = produced

\* C2: when stop() is called while a thread is inside wait_if_paused(),
\* paused, that thread eventually returns from it.
C2_StopWakesWaiter ==
    (stop_at = "blocked" /\ UsesWaitIfPaused(metric)) ~> ~InPauseWait

\* C3: a thread inside the wait with paused false (resume() has been
\* called) eventually returns, unless pause() is called again first.
C3_ResumeWakesWaiter ==
    (InPauseWait /\ ~paused) ~> (~InPauseWait \/ paused)

C3_Witness ==
    /\ ppc = "pm_waiting"
    /\ ~paused
    /\ mpc = "resume_notify"

\* C4: for every metric, when stop() is called while the sampling loop is
\* inside the wait for the end of the pause, start_sampling eventually
\* returns, or else resume() is called.
C4_StopEndsPausedPipeline ==
    (stop_at = "blocked") ~> (TaskDone \/ ~paused)

\* C5: when the consumer loop has ended, every snapshot the producer pushed
\* has been forwarded to the sink.
C5_DrainedOnShutdown ==
    (QueueBased(metric) /\ cpc \in {"join", "done"}) => forwarded = produced

\* C6: after a stop() called while paused was false, every queue-based
\* pipeline eventually has its start_sampling return.
C6_StopEndsRunningPipeline ==
    (stop_at = "running" /\ QueueBased(metric)) ~> TaskDone

\* The same restricted to the producers that wait through wait_if_paused(),
\* whose predicate looks at stopped.
C6_WaitIfPausedPipelines ==
    (stop_at = "running" /\ UsesWaitIfPaused(metric)) ~> TaskDone

\* C7: stopped is false initially, and no step takes it from true to false.
C7_StoppedMonotonic ==
    /\ stopped = FALSE
    /\ [][stopped => stopped']_vars

C7_Witness ==
    /\ stopped
    /\ mpc = "resume_notify"
    /\ ~paused

\* C8: once stop_ is set, no step makes the queue longer.
C8_NoPushAfterStop == [][stop_ => Len(queue_') <= Len(queue_)]_vars

\* C9: while the lifecycle is paused and not stopped, a producer has pushed
\* at most one snapshot since pause() was called: the one in progress.
C9_PausedNoNewSnapshots ==
    (paused /\ ~stopped) => paused_pushes <= 1

C9_Witness ==
    /\ paused /\ ~stopped
    /\ paused_pushes = 1
    /\ ppc = "pm_waiting"

\* C10: what the consumer has forwarded is at all times the beginning of
\* what the producer pushed, in the same order, nothing twice.
C10_ForwardedInPushOrder == IsPrefix(forwarded, produced)

C10_Witness ==
    /\ metric = "ib"
    /\ Len(forwarded) >= 2

----------------------------------------------------------------------------
(* Properties of the network sink *)

\* The fields of a string between its newlines: k newlines give k + 1 fields,
\* so a leading, trailing or doubled newline shows as an empty field.
RECURSIVE Split(_)
Split(str) ==
    IF \E i \in 1..Len(str) : str[i] = NL
    THEN LET i == CHOOSE k \in 1..Len(str) :
                     str[k] = NL /\ \A j \in 1..(k - 1) : str[j] # NL
         IN  <<SubSeq(str, 1, i - 1)>> \o Split(SubSeq(str, i + 1, Len(str)))
    ELSE <<str>>

\* The lines of a sequence of payloads, in order.
RECURSIVE LinesOf(_)
LinesOf(ps) == IF ps = <<>> THEN <<>> ELSE Split(Head(ps)) \o LinesOf(Tail(ps))

Payloads(hs) == [i \in 1..Len(hs) |-> hs[i].payload]

BufferLines == IF buffer_ = <<>> THEN <<>> ELSE Split(buffer_)

Occurrences(seq, x) == Cardinality({i \in 1..Len(seq) : seq[i] = x})

StreamGone == spc \in {"stop", "stop_notify", "join", "destroyed"}

\* C11: with batch size N, write_line hands a batch to the writer exactly on
\* the N-th line since the last hand-off: the buffer never holds N lines,
\* a batch handed off by write_line holds N lines, and buffer and counter
\* are empty and zero right after it.
C11_BatchOnNthLine ==
    /\ current_batch_count_ < batch_size_
    /\ current_batch_count_ = Len(BufferLines)
    /\ \A i \in 1..Len(handed) :
         handed[i].by = "write_line" =>
            Len(Split(handed[i].payload)) = batch_size_
    /\ spc = "notify" => (buffer_ = <<>> /\ current_batch_count_ = 0)

C11_Witness ==
    /\ batch_size_ = 3
    /\ spc = "notify"
    /\ Len(handed) = 1
    /\ handed[1].by = "write_line"

\* What flush() must do to a buffer: nothing if it is empty, and otherwise
\* hand all of it to the writer as one batch and reset buffer and counter.
FlushPost ==
    IF buffer_ = <<>>
    THEN handed' = handed /\ writer_queue_' = writer_queue_
    ELSE /\ handed' = Append(handed, [payload |-> buffer_, by |-> "flush"])
         /\ writer_queue_' = Append(writer_queue_, buffer_)
         /\ buffer_' = <<>>
         /\ current_batch_count_' = 0

\* C12: flush() on a buffer of k lines, 0 < k < N, hands exactly one batch
\* with those lines to the writer and resets buffer and counter; flush() on
\* an empty buffer hands off nothing.
C12_FlushHandsPartialBatch ==
    /\ [](after_flush => (buffer_ = <<>> /\ current_batch_count_ = 0))
    /\ [][DbFlush => FlushPost]_vars

C12_Witness ==
    /\ after_flush
    /\ spc = "notify"
    /\ handed # <<>>
    /\ handed[Len(handed)].by = "flush"
    /\ Len(Split(handed[Len(handed)].payload)) < batch_size_

\* C13: the lines of the batches handed off, followed by the lines still in
\* the buffer, are the lines written, each once and in write order; a batch
\* is its lines joined by single newlines.
C13_LinesOnceInOrder ==
    spc # "none" => LinesOf(Payloads(handed)) \o BufferLines = written

C13_Witness ==
    /\ batch_size_ = 3
    /\ Len(handed) = 2
    /\ handed[1].payload = <<1, NL, 2, NL, 3>>
    /\ handed[2] = [payload |-> <<4>>, by |-> "flush"]

\* C14: when the worker thread has exited, every batch pushed has been taken
\* off the queue and passed to send_request, and stop() returns only once the
\* worker has exited.
C14_StopDrainsQueue ==
    /\ wpc = "exited" =>
          (writer_queue_ = <<>> /\ requested = Payloads(handed))
    /\ spc = "destroyed" => wpc = "exited"

C14_Witness ==
    /\ spc = "destroyed"
    /\ Len(requested) >= 2

\* C15: once the destructor of a db_stream has flushed, every line written is
\* in a batch handed to the writer, and when the destructor is done the worker
\* has passed each of those batches to send_request.
C15_DestructorFlushesFirst ==
    /\ StreamGone => (buffer_ = <<>> /\ LinesOf(Payloads(handed)) = written)
    /\ spc = "destroyed" => requested = Payloads(handed)

C15_Witness ==
    /\ spc = "destroyed"
    /\ handed # <<>>
    /\ handed[Len(handed)].by = "dtor"

\* C16: one payload is transmitted at most twice.
C16_AtMostTwoAttempts == attempts <= 2

\* C17: when the first transmission of a payload failed and the second went
\* through, the endpoint has received that payload once, and each of its
\* lines once.
C17_RetryDeliversOnce ==
    (wpc = "read" /\ attempts = 2) =>
        /\ Occurrences(delivered, payload) = 1
        /\ \A l \in {Split(payload)[i] : i \in 1..Len(Split(payload))} :
              Occurrences(LinesOf(delivered), l) = 1

C17_Witness ==
    /\ wpc = "read"
    /\ attempts = 2
    /\ Len(Split(payload)) >= 2

\* C18: a response other than 204 is only logged: send_request returns to the
\* worker loop, nothing is sent again, the connection and the queue are left
\* as they are.
C18_RejectionNotRetried ==
    [][(wpc = "read" /\ response = "other" /\ wpc' # wpc) =>
          /\ wpc' = "lock"
          /\ delivered' = delivered
          /\ requested' = requested
          /\ writer_queue_' = writer_queue_
          /\ sock_' = sock_]_vars

C18_Witness ==
    /\ last_response = "other"
    /\ wpc = "read"
    /\ Len(delivered) >= 2
    /\ Occurrences(delivered, delivered[1]) = 1

\* C19: while the worker is inside send_request it does not hold the queue
\* mutex, so a flush() of a buffer that holds lines can push at once.
C19_PushDuringSend ==
    /\ wpc \in SendPcs => writer_mutex_ # "worker"
    /\ (wpc \in SendPcs /\ spc = "ready" /\ buffer_ # <<>>) => ENABLED DbFlush

C19_Witness ==
    /\ wpc = "read"
    /\ response = "none"
    /\ pushed_in_send
    /\ spc = "ready"

\* C20: every call of send_request returns.
C20_SendRequestReturns == (wpc \in SendPcs) ~> (wpc \notin SendPcs)

\* C21: the batches passed to send_request are, in order, the first of the
\* batches handed to the writer: a later batch is never sent before an
\* earlier one, and the queue holds the rest in hand-off order.
C21_SentInHandOffOrder ==
    /\ IsPrefix(requested, Payloads(handed))
    /\ \A i \in 1..Len(writer_queue_) :
          Len(requested) + i <= Len(handed)
          /\ writer_queue_[i] = handed[Len(requested) + i].payload

C21_Witness ==
    /\ Len(requested) = 2
    /\ Len(handed) = 3
    /\ Len(writer_queue_) = 1
    /\ wpc = "send_request"

\* C30: for every base batch size B >= 1 the batch size set for cpu and
\* cpufreq is B, and the one set for mem, disk, ib and net is at most B.
C30_BatchSizeScalesDown ==
    upc = "start_sampling" =>
        /\ metric \in {"cpu", "cpufreq"} => batch_size_ = config_batch_size
        /\ metric \in {"mem", "disk", "ib", "net"} =>
               batch_size_ <= config_batch_size

\* The producer of a cpu, disk, mem or ib pipeline found no source.
SourceMissing == source = "missing" /\ OpensSource(metric)

\* C22: a producer that cannot open its source takes no sample and pushes
\* nothing; it closes its queue, the consumer's pop() returns false and
\* start_sampling returns with nothing forwarded; and the steps of that
\* pipeline leave the pause_manager, which the other pipelines share, alone.
C22_SourceMissingEndsPipeline ==
    /\ [](SourceMissing => (reads = 0 /\ produced = <<>> /\ forwarded = <<>>))
    /\ [][(SourceMissing /\ (ppc' # ppc \/ cpc' # cpc))
            => UNCHANGED pmVars]_vars
    /\ SourceMissing ~> (stop_ /\ TaskDone /\ forwarded = <<>>)

C22_Witness ==
    /\ SourceMissing
    /\ metric = "ib"
    /\ ~stopped
    /\ stop_
    /\ cpc = "done"
    /\ forwarded = <<>>

\* C23: the controller starts paused and not stopped, and until main calls
\* resume() no snapshot has been read and nothing has been passed to a sink.
C23_NoSamplingBeforeResume ==
    mpc = "resume0" =>
        /\ paused /\ ~stopped
        /\ reads = 0
        /\ forwarded = <<>>

\* The metrics whose source holds counters that only grow: /proc/stat,
\* /proc/diskstats, /proc/net/dev and the InfiniBand port counters.
Cumulative == {"cpu", "disk", "net", "ib"}

\* C28: for a cumulative metric the first snapshot read is kept as baseline
\* and not forwarded, and each later snapshot yields one forwarded sample:
\* the samples forwarded are never more than the snapshots read less one.
C28_FirstSnapshotIsBaseline ==
    metric \in Cumulative =>
        IF reads = 0 THEN forwarded = <<>>
                     ELSE Len(forwarded) <= reads - 1

\* C24: once a terminate signal has been processed and main has left its
\* signal loop, the process exits: main returns when the tasks are ready and
\* leaves through exit(0) when the deadline passes first.
C24_ExitsAfterTerminate ==
    (stop_at # "no" /\ mpc = "wait_tasks") ~> (mpc \in {"exit", "forced_exit"})

\* The transition a signal number stands for, as main enters it: pause()
\* for SIGUSR1, resume() for SIGUSR2, stop() for SIGINT.
Applied(sig) ==
    CASE sig = SIGUSR1 -> paused' = TRUE /\ stopped' = stopped /\ mpc' = mpc
      [] sig = SIGUSR2 -> mpc' = "resume" /\ UNCHANGED <<paused, stopped>>
      [] sig = SIGINT  -> stopped' = TRUE /\ paused' = paused
                          /\ mpc' = "stop_notify"

\* C25: the handler appends the signal number to the pipe and touches
\* nothing else; main takes the numbers off the pipe first in, first out,
\* and enters for each one exactly the transition it stands for; a resume()
\* entered is completed before the next number is read; and the flags change
\* in no other step.
C25_SignalsAppliedInOrder ==
    [][ /\ Len(signal_pipe') > Len(signal_pipe) =>
             /\ \E sig \in Signals : signal_pipe' = Append(signal_pipe, sig)
             /\ UNCHANGED <<pmVars, mpc, running>>
        /\ Len(signal_pipe') < Len(signal_pipe) =>
             /\ signal_pipe' = Tail(signal_pipe)
             /\ Applied(Head(signal_pipe))
        /\ mpc = "resume" =>
             /\ Len(signal_pipe') >= Len(signal_pipe)
             /\ mpc' # mpc => (paused' = FALSE /\ stopped' = stopped)
        /\ (paused' # paused \/ stopped' # stopped) =>
             \/ Len(signal_pipe') < Len(signal_pipe)
             \/ mpc \in {"resume0", "resume"}
      ]_vars

C25_Witness ==
    /\ ppc = "none"
    /\ mpc = "read"
    /\ signal_pipe = <<SIGUSR2, SIGINT>>
    /\ paused
    /\ ~stopped

\* A command line that must be refused: no sampling frequency or one that
\* is not greater than 0, an unknown flag, or a metric switched on with
\* neither an output file nor a remote endpoint.
BadCommand ==
    \/ cmd.freq \in {"absent", "novalue"}
    \/ cmd.freq \in {"nan", "neg", "zero", "pos"}
         /\ ~gt_zero(stod(FreqTokens(cmd.freq)[2]).d)
    \/ cmd.unknown
    \/ ~cmd.grafana /\ (cmd.cpu = "nopath" \/ cmd.mem = "nopath")

\* C26: with such a command line main never gets as far as launching the
\* tasks, and the status it ends with is not zero.
C26_BadCommandFails ==
    BadCommand =>
        /\ upc \in {"parse_arguments", "checks", "exited"}
        /\ ~tasks_started
        /\ upc = "exited" => exit_status \in {1, -1}

\* The two snapshots are of different entities.
DifferentKeys ==
    IF metric = "disk"
    THEN \E f \in {"device", "major", "minor", "index"} :
             this_before[f] # sample[f]
    ELSE this_before.cpuid # sample.cpuid

\* C27: subtracting a snapshot of another entity fails and yields no
\* result: operator-= does not return, and the minuend is as it was.
C27_DifferentKeysFail ==
    (upc = "done" /\ DifferentKeys) =>
        /\ outcome \in {"raised", "aborted"}
        /\ this_sample = this_before

\* C29: the duration a producer sleeps after a tick is never negative, and
\* the process logs the overrun warning at most once.
C29_OverrunHandledOnce ==
    /\ \A p \in DOMAIN time_to_wait : time_to_wait[p] >= 0
    /\ warnings <= 1

\* The consumer is blocked inside the wait of pop().
PopBlocked == cpc = "pop_waiting"

\* pop() has returned: true with an item, or false.
PopReturned == cpc \in {"popped", "closed"}

\* C31: a consumer blocked in pop() whose queue has got an item or has been
\* closed eventually returns from pop(); pop() returns false only when the
\* queue is empty and closed, returns the oldest item otherwise, and after
\* stop() a popper is blocked only until the notify_all() of that call.
C31_BlockedPopIsWoken ==
    /\ (PopBlocked /\ pop_ready(queue_, stop_)) ~> PopReturned
    /\ [][(cpc' = "closed" /\ cpc # "closed") => (queue_ = <<>> /\ stop_)]_vars
    /\ [][(cpc' = "popped" /\ cpc # "popped") =>
            (queue_ # <<>> /\ item' = Head(queue_))]_vars
    /\ []((PopBlocked /\ stop_) => ppc = "drv_notify")

C31_Witness ==
    /\ cpc = "pop_relock"
    /\ stop_
    /\ queue_ = <<>>
    /\ produced # <<>>
    /\ ppc = "drv"

\* C32: no producer takes a sample once it has been released from
\* wait_if_paused() by stop(): after a stop() called while the producer of a
\* queue-based pipeline was inside the wait, nothing more is read from the
\* source and nothing more is pushed.
C32_NoSampleAfterStop ==
    [][(stopped /\ stop_at = "blocked" /\ QueueBased(metric))
           => (reads' = reads /\ produced' = produced)]_vars

\* C33: between a successful pop() and the forwarding of the item the
\* consumer tests stopped: the sink is written only by a consumer that has
\* passed the test, the test is passed only with stopped false, and a
\* consumer that has popped with stopped true ends its loop with the item
\* not forwarded.  (stopped never goes back to false.)
C33_StoppedItemNotForwarded ==
    /\ [][(QueueBased(metric) /\ forwarded' # forwarded) =>
            (cpc = "forward" /\ forwarded' = Append(forwarded, item))]_vars
    /\ [][(cpc' = "forward" /\ cpc # "forward") =>
            (cpc = "popped" /\ ~stopped)]_vars
    /\ [][(cpc = "popped" /\ stopped /\ cpc' # cpc) =>
            (cpc' = "join" /\ forwarded' = forwarded)]_vars
    /\ [][stopped => stopped']_vars

\* An item was popped with stopped true, and the loop has ended without it.
C33_Witness ==
    /\ QueueBased(metric)
    /\ cpc = "join"
    /\ stopped
    /\ item = Len(forwarded) + 1
    /\ Len(produced) > Len(forwarded)

\* C34: pause(), resume(), stop() and the queue's stop() are idempotent:
\* after the operation has been called twice in a row, the flags, the queue
\* and the threads waiting on the two condition variables are as its first
\* call left them.
C34_CalledTwiceAsOnce ==
    calls >= 2 => lifecycle = after_once

C34_Witness ==
    /\ calls = 2
    /\ op = "stop"
    /\ stopped
    /\ ppc = "pm_relock"
    /\ after_once = lifecycle

\* C35: sock_ is -1 (Disconnected) or the descriptor of the connection
\* (Connected), and the worker sends and reads only when Connected; a
\* send_request entered Connected goes on with the same connection; a
\* response that was read leaves the connection as it is; a read that
\* yields nothing, and a send failure whose reconnect fails, leave sock_ at
\* -1; a send failure whose reconnect works goes on with a new connection.
C35_OneConnectionTwoStates ==
    /\ [](sock_ \in {NoSock, Fd})
    /\ [](wpc \in {"send", "read"} => sock_ = Fd)
    /\ [][(wpc = "send_request" /\ sock_ = Fd /\ wpc' # wpc) =>
            (wpc' = "send" /\ sock_' = Fd /\ conn_received' = conn_received)]_vars
    /\ [][(wpc = "read" /\ response \in {"204", "other"} /\ wpc' # wpc) =>
            (wpc' = "lock" /\ sock_' = Fd)]_vars
    /\ [][(wpc = "read" /\ response = "closed" /\ wpc' # wpc) =>
            (wpc' = "lock" /\ sock_' = NoSock)]_vars
    /\ [][(wpc = "send" /\ wpc' = "lock") => sock_' = NoSock]_vars
    /\ [][(wpc = "send" /\ attempts' # attempts) =>
            (sock_' = Fd /\ conn_received' = 0 /\ total_sent' = 0)]_vars

\* The worker enters send_request for a later batch with the connection the
\* batch before it has left.
C35_Witness ==
    /\ wpc = "send_request"
    /\ sock_ = Fd
    /\ Len(requested) >= 2
    /\ last_response = "204"

\* C36: the name-to-index table is not changed once it is built; a device of
\* the source that is not in the table (and is not skipped as loop or dm) is
\* logged and left out of the sample set; every sample written carries the
\* index the table gives to its device; and the sampling loop goes on after
\* such a read.
C36_OnlyIndexedDisksForwarded ==
    /\ [][upc # "disk_start" =>
            (name_to_index' = name_to_index /\ upc' # "disk_start")]_vars
    /\ [](upc # "disk_start" =>
            /\ \A i \in DOMAIN disk_written :
                  /\ disk_written[i] \in DOMAIN name_to_index
                  /\ name_to_index[disk_written[i]] = i
            /\ not_indexed = {d \in diskstats : /\ d \notin DOMAIN name_to_index
                                                 /\ d[1] \notin {"loop", "dm"}}
            /\ \A i \in DOMAIN samples_set : samples_set[i] \notin not_indexed)
    /\ []((upc = "disk_forward" /\ not_indexed # {}) => ENABLED DiskForward)

C36_Witness ==
    /\ upc = "disk_read"
    /\ not_indexed # {}
    /\ DOMAIN disk_written # {}
    /\ disk_written = samples_set

\* The producer thread of a queue-based pipeline has run and has returned.
\* (cpufreq::start_sampling creates neither queue nor thread when it finds
\* no source.)
ProducerEnded ==
    /\ QueueBased(metric)
    /\ ppc = "done"
    /\ ~(metric = "cpufreq" /\ source = "missing")

\* C37: in the queue-based pipelines the queue is closed by the producer,
\* as the last thing it does: once stop_ is set nothing more is pushed or
\* read and the producer only notifies and returns, and a producer thread
\* that has returned has left its queue closed.
C37_CloseIsLastAction ==
    /\ [](ProducerEnded => stop_)
    /\ [][(QueueBased(metric) /\ stop_) =>
            /\ produced' = produced
            /\ reads' = reads
            /\ Len(queue_') <= Len(queue_)
            /\ ppc \in {"close_notify", "done"}
            /\ ppc' \in {"close_notify", "done"}]_vars
    /\ [][(QueueBased(metric) /\ ~stop_ /\ stop_') =>
            (ppc = "close" /\ ppc' = "close_notify")]_vars

C37_Witness ==
    /\ ProducerEnded
    /\ stop_
    /\ Len(produced) = MaxSamples
    /\ queue_ # <<>>

\* A call of write_line or flush has returned (or none has been made yet)
\* and the stream is alive.
StreamAtRest == spc = "ready"

\* C38: between the calls of write_line and flush the counter is the number
\* of lines in the buffer, it is below the batch size, and the buffer is
\* empty exactly when the counter is 0.
C38_CounterMatchesBuffer ==
    StreamAtRest =>
        /\ current_batch_count_ = Len(BufferLines)
        /\ current_batch_count_ < batch_size_
        /\ (buffer_ = <<>>) <=> (current_batch_count_ = 0)

\* Two lines are buffered again after a batch of three was handed off.
C38_Witness ==
    /\ StreamAtRest
    /\ batch_size_ = 3
    /\ current_batch_count_ = 2
    /\ Len(handed) >= 1
    /\ Len(written) >= 4

\* C39: no empty batch is enqueued or sent: every batch handed to the
\* writer, every payload in its queue and every payload passed to
\* send_request holds something, and the worker is inside send_request only
\* with a payload that holds something.
C39_NoEmptyBatch ==
    /\ \A i \in 1..Len(handed) : handed[i].payload # <<>>
    /\ \A i \in 1..Len(writer_queue_) : writer_queue_[i] # <<>>
    /\ \A i \in 1..Len(requested) : requested[i] # <<>>
    /\ wpc \in SendPcs => payload # <<>>

\* flush() has been called on an empty buffer and has handed nothing over:
\* the only batch so far is the one write_line handed off.
C39_Witness ==
    /\ after_flush
    /\ spc = "ready"
    /\ buffer_ = <<>>
    /\ Len(handed) = 1
    /\ handed[1].by = "write_line"
    /\ wpc \in SendPcs

\* C40: when main has left its signal loop and waits for the pipeline
\* tasks, stop() has been called on the pause_manager.
C40_StopBeforeTaskWait ==
    mpc \in {"wait_tasks", "exit", "forced_exit", "exit_blocked"} => stopped

====
